---- MODULE Spec2Model ----
(***************************************************************************)
(* A model of lego-monitor's alert monitor (the snapshot comparison and    *)
(* alert detection of the repository), of its snapshot store reader and of *)
(* its price tracker.                                                      *)
(*                                                                         *)
(* JavaScript values are modelled as follows.                              *)
(*   - a field of a snapshot record is a raw value: undefined, or a string *)
(*     given as the sequence of its characters;                            *)
(*   - a number is an exact rational <<n, d>> in lowest terms with d > 0,  *)
(*     or <<1, 0>> (Infinity), <<-1, 0>> (-Infinity), <<0, 0>> (NaN).      *)
(*     Binary floating-point rounding is not modelled;                     *)
(*   - x.toFixed(2) is the number of hundredths it prints, so that         *)
(*     "5.00" is 500, with the non-finite texts kept apart.                *)
(***************************************************************************)
EXTENDS Integers, Sequences, FiniteSets, TLC

\* dirs:      the entries of data/set-analysis, in the order readdirSync lists
\*            them, each with the content of its analysis-data.json
\* snapshots: the array of snapshots the program works on
\* reports:   the output of the runs of the monitor's main, by number of snapshots
\* call:      the last call of a function of the library and what it returned
\* fetcher:   the run of fetchSetDetails.js: its list of sets, its position, its
\*            loop index, its browser and what it did so far
\* registry:  this.sets of a SetRegistry
\* clock:     the time the last new Date() returned
\* callLog:   the calls made on the SetRegistry, with the times they read
VARIABLES dirs, snapshots, reports, call, fetcher, registry, clock, callLog

vars == <<dirs, snapshots, reports, call, fetcher, registry, clock, callLog>>

\* fetchSetDetails.js not run
NotFetching == [pc |-> "none"]

\* new Map()
EmptyMap == [k \in {} |-> {}]

\* no SetRegistry in use
NoRegistry ==
  /\ registry = EmptyMap
  /\ clock = 0
  /\ callLog = <<>>

----------------------------------------------------------------------------
(* Raw values of record fields                                             *)

Undefined == [t |-> "undefined", s |-> <<>>]

Null == [t |-> "null", s |-> <<>>]

Str(chars) == [t |-> "string", s |-> chars]

EmptyString == Str(<<>>)

\* a number passed as an argument
NumberValue(x) == [t |-> "number", s |-> <<>>, n |-> x]

\* !v of JavaScript, for undefined, null and strings
Falsy(v) ==
  \/ v.t \in {"undefined", "null"}
  \/ v.t = "string" /\ v.s = <<>>
  \/ v.t = "number" /\ v.n \in {<<0, 1>>, <<0, 0>>}

\* record.field, undefined when the record has no such property
Get(rec, f) == IF f \in DOMAIN rec THEN rec[f] ELSE Undefined

----------------------------------------------------------------------------
(* Numbers                                                                 *)

Abs(i) == IF i < 0 THEN -i ELSE i

Sgn(i) == IF i > 0 THEN 1 ELSE IF i < 0 THEN -1 ELSE 0

RECURSIVE Gcd(_, _)
Gcd(a, b) == IF b = 0 THEN a ELSE Gcd(b, a % b)

\* the number n/d; d = 0 gives Infinity, -Infinity or NaN as in JavaScript
Rat(n, d) ==
  IF d = 0 THEN <<Sgn(n), 0>>
  ELSE LET g == Gcd(Abs(n), Abs(d))
           s == Sgn(d)
       IN  <<(s * n) \div g, (s * d) \div g>>

Num(i) == <<i, 1>>

Zero == Num(0)

IsNaN(x) == x = <<0, 0>>

IsFinite(x) == x[2] # 0

RSub(x, y) ==
  IF IsFinite(x) /\ IsFinite(y) THEN Rat(x[1] * y[2] - y[1] * x[2], x[2] * y[2])
  ELSE IF IsNaN(x) \/ IsNaN(y) THEN <<0, 0>>
  ELSE IF IsFinite(y) THEN x
  ELSE IF IsFinite(x) THEN <<-y[1], 0>>
  ELSE IF x = y THEN <<0, 0>> ELSE x

RAdd(x, y) == RSub(x, <<-y[1], y[2]>>)

RMul(x, y) ==
  IF IsFinite(x) /\ IsFinite(y) THEN Rat(x[1] * y[1], x[2] * y[2])
  ELSE <<Sgn(x[1] * y[1]), 0>>

\* x / y; a finite x over 0 is +-Infinity, 0 / 0 is NaN
RDiv(x, y) ==
  IF IsFinite(x) /\ IsFinite(y) THEN Rat(x[1] * y[2], x[2] * y[1])
  ELSE IF IsFinite(x) /\ ~IsNaN(y) THEN Zero
  ELSE IF IsFinite(y) /\ ~IsNaN(x) THEN <<x[1] * (IF y[1] < 0 THEN -1 ELSE 1), 0>>
  ELSE <<0, 0>>

\* x < y and x >= y; every comparison with NaN is false
RLt(x, y) ==
  /\ ~IsNaN(x) /\ ~IsNaN(y)
  /\ IF IsFinite(x) /\ IsFinite(y) THEN x[1] * y[2] < y[1] * x[2]
     ELSE IF IsFinite(x) THEN y[1] > 0
     ELSE IF IsFinite(y) THEN x[1] < 0
     ELSE x[1] < y[1]

RGeq(x, y) == ~IsNaN(x) /\ ~IsNaN(y) /\ ~RLt(x, y)

\* x.toFixed(2): the hundredths printed, rounding half away from zero
ToFixed2(x) ==
  IF IsNaN(x) THEN [k |-> "NaN", h |-> 0]
  ELSE IF ~IsFinite(x) THEN [k |-> IF x[1] > 0 THEN "Infinity" ELSE "-Infinity", h |-> 0]
  ELSE LET m == Abs(x[1]) * 100
           q == (2 * m + x[2]) \div (2 * x[2])
       IN  [k |-> "num", h |-> Sgn(x[1]) * q]

----------------------------------------------------------------------------
(* Metric parsers                                                          *)

Digits == {"0", "1", "2", "3", "4", "5", "6", "7", "8", "9"}

DigitVal(c) ==
  CASE c = "0" -> 0 [] c = "1" -> 1 [] c = "2" -> 2 [] c = "3" -> 3 [] c = "4" -> 4
    [] c = "5" -> 5 [] c = "6" -> 6 [] c = "7" -> 7 [] c = "8" -> 8 [] c = "9" -> 9

\* str.replace(/[...]/g, ""): every character of the class removed
StripChars(chars, class) == SelectSeq(chars, LAMBDA c : c \notin class)

RECURSIVE TakeDigits(_)
TakeDigits(chars) ==
  IF chars # <<>> /\ Head(chars) \in Digits
  THEN <<Head(chars)>> \o TakeDigits(Tail(chars))
  ELSE <<>>

RECURSIVE SkipSpaces(_)
SkipSpaces(chars) ==
  IF chars # <<>> /\ Head(chars) = " " THEN SkipSpaces(Tail(chars)) ELSE chars

RECURSIVE DigitsValue(_, _)
DigitsValue(ds, acc) ==
  IF ds = <<>> THEN acc ELSE DigitsValue(Tail(ds), 10 * acc + DigitVal(Head(ds)))

RECURSIVE Pow10(_)
Pow10(k) == IF k = 0 THEN 1 ELSE 10 * Pow10(k - 1)

\* whether chars starts with prefix
StartsWith(chars, prefix) ==
  Len(chars) >= Len(prefix) /\ SubSeq(chars, 1, Len(prefix)) = prefix

\* the exponent read from what follows the digits: e or E, an optional sign
\* and digits; 0 when there is none
ExponentOf(after) ==
  IF after = <<>> \/ Head(after) \notin {"e", "E"} THEN 0
  ELSE LET etail == Tail(after)
       IN  IF etail = <<>> THEN 0
           ELSE IF Head(etail) = "-" THEN -DigitsValue(TakeDigits(Tail(etail)), 0)
           ELSE IF Head(etail) = "+" THEN DigitsValue(TakeDigits(Tail(etail)), 0)
           ELSE DigitsValue(TakeDigits(etail), 0)

\* x times 10 to the power e
Scaled(x, e) ==
  IF e = 0 THEN x
  ELSE IF e > 0 THEN Rat(x[1] * Pow10(e), x[2])
  ELSE Rat(x[1], x[2] * Pow10(-e))

\* parseFloat: leading blanks, an optional sign, then Infinity or digits, an
\* optional fraction and an optional exponent; the longest such prefix is
\* read and NaN is returned when it has no digit
ParseFloat(chars) ==
  LET t      == SkipSpaces(chars)
      signed == t # <<>> /\ Head(t) \in {"+", "-"}
      neg    == signed /\ Head(t) = "-"
      body   == IF signed THEN Tail(t) ELSE t
      ip     == TakeDigits(body)
      rest   == SubSeq(body, Len(ip) + 1, Len(body))
      fp     == IF rest # <<>> /\ Head(rest) = "." THEN TakeDigits(Tail(rest)) ELSE <<>>
      mag    == Rat(DigitsValue(ip \o fp, 0), Pow10(Len(fp)))
      after  == IF rest # <<>> /\ Head(rest) = "."
                THEN SubSeq(rest, Len(fp) + 2, Len(rest)) ELSE rest
  IN  IF StartsWith(body, <<"I", "n", "f", "i", "n", "i", "t", "y">>)
      THEN IF neg THEN <<-1, 0>> ELSE <<1, 0>>
      ELSE IF ip = <<>> /\ fp = <<>> THEN <<0, 0>>
      ELSE Scaled(IF neg THEN <<-mag[1], mag[2]>> ELSE mag, ExponentOf(after))

\* x || 0 for a number x
OrZero(x) == IF IsNaN(x) \/ x = Zero THEN Zero ELSE x

\* in the place of the returned number: the TypeError that priceStr.replace
\* throws when priceStr is truthy and no string
TypeError == <<0, -1>>

parsePrice(priceStr) ==
  IF Falsy(priceStr) THEN Zero
  ELSE IF priceStr.t # "string" THEN TypeError
  ELSE OrZero(ParseFloat(StripChars(priceStr.s, {"$", ","})))

parsePercent(percentStr) ==
  IF Falsy(percentStr) THEN Zero
  ELSE IF percentStr.t # "string" THEN TypeError
  ELSE OrZero(ParseFloat(StripChars(percentStr.s, {"+", "%"})))

----------------------------------------------------------------------------
(* Alerts                                                                  *)

\* a template literal `${pre}${n.toFixed(2)}${post}`
Fmt(pre, n, post) == [pre |-> pre, n |-> n, post |-> post]

Money(x) == Fmt("$", ToFixed2(x), "")

\* String(n) of a number inside a template literal
NumText(x) == [k |-> "text", r |-> x]

\* `Set ${setNumber} (${name}) ${text}`, where text may embed numbers (args)
Alert(type, priority, currentSet, text, args, details) ==
  [type      |-> type,
   priority  |-> priority,
   setNumber |-> Get(currentSet, "setNumber"),
   name      |-> Get(currentSet, "name"),
   message   |-> [set  |-> Get(currentSet, "setNumber"),
                  name |-> Get(currentSet, "name"),
                  text |-> text,
                  args |-> args],
   details   |-> details]

\* a variant that pairs the records by position, not by setNumber
PrevIndex_ByPosition(previous, setNumber) == IF Len(previous.sets) > 0 THEN 1 ELSE 0

\* new Map(previous.sets.map((s) => [s.setNumber, s])): a later record of the
\* same setNumber replaces an earlier one; 0 stands for "no entry"
PrevIndex(previous, setNumber) ==
  LET hits == {i \in 1..Len(previous.sets) : Get(previous.sets[i], "setNumber") = setNumber}
  IN  IF hits = {} THEN 0 ELSE CHOOSE i \in hits : \A j \in hits : j <= i

HasPrev(previous, currentSet) == PrevIndex(previous, Get(currentSet, "setNumber")) # 0

PrevSet(previous, currentSet) ==
  previous.sets[PrevIndex(previous, Get(currentSet, "setNumber"))]

\* F of the value of v, v evaluated once: a const of the code
Once(v, F(_)) == CHOOSE r \in {F(x) : x \in {v}} : TRUE

\* whether parsePrice or parsePercent throws on one of the values
Throws(values) == \E v \in values : ~Falsy(v) /\ v.t # "string"

\* in the place of the returned alerts: the TypeError that leaves the detector
\* when a parser throws in its loop
Thrown == <<[type |-> "TypeError", setNumber |-> Null]>>

\* for (const currentSet of current.sets) { ... alerts.push(...) ... }: an
\* exception in the body ends the loop and the function
ForEachSet(current, Body(_)) ==
  LET loop[i \in 0..Len(current.sets)] ==
        IF i = 0 THEN <<>>
        ELSE Once(loop[i - 1], LAMBDA alerts :
               IF alerts = Thrown THEN Thrown
               ELSE Once(Body(current.sets[i]), LAMBDA pushed :
                      IF pushed = Thrown THEN Thrown ELSE alerts \o pushed))
  IN  loop[Len(current.sets)]

\* a variant that takes only a record without marker as not retired
wasNotRetired_OnlyAbsent(prevSet) == Get(prevSet, "retired") = Undefined

\* !prevSet.retired || prevSet.retired === ""
wasNotRetired(prevSet) ==
  Falsy(Get(prevSet, "retired")) \/ Get(prevSet, "retired") = EmptyString

\* a variant without the truthiness test: an absent marker counts as retired
isNowRetired_NotEmptyString(currentSet) == Get(currentSet, "retired") # EmptyString

\* currentSet.retired && currentSet.retired !== ""
isNowRetired(currentSet) ==
  ~Falsy(Get(currentSet, "retired")) /\ Get(currentSet, "retired") # EmptyString

\* ((price - msrp) / msrp) * 100
PercentFromMsrp(price, msrp) == RMul(RDiv(RSub(price, msrp), msrp), Num(100))

----------------------------------------------------------------------------
(* detectRetirementEvents                                                  *)

RetirementAlert(prevSet, currentSet) ==
  LET msrp         == parsePrice(Get(currentSet, "retailPrice"))
      currentPrice == parsePrice(Get(currentSet, "marketPrice"))
      roi          == IF RLt(Zero, msrp)
                      THEN ToFixed2(PercentFromMsrp(currentPrice, msrp))
                      ELSE [k |-> "N/A", h |-> 0]
  IN  Alert("RETIREMENT", "HIGH", currentSet, "has RETIRED!", <<>>,
            [retiredDate          |-> Get(currentSet, "retired"),
             previousAvailability |-> Get(prevSet, "availability"),
             currentPrice         |-> Money(currentPrice),
             msrp                 |-> Money(msrp),
             currentROI           |-> Fmt("", roi, "%"),
             predictedPop         |-> Get(currentSet, "retirementPop")])

RetirementEventsFor(previous, currentSet) ==
  IF ~HasPrev(previous, currentSet) THEN <<>>
  ELSE LET prevSet == PrevSet(previous, currentSet)
       IN  IF wasNotRetired(prevSet) /\ isNowRetired(currentSet)
           THEN IF Throws({Get(currentSet, "retailPrice"), Get(currentSet, "marketPrice")})
                THEN Thrown
                ELSE <<RetirementAlert(prevSet, currentSet)>>
           ELSE <<>>

\* a variant that goes through the items of current from the last to the first
detectRetirementEvents_LastItemFirst(previous, current) ==
  ForEachSet([current EXCEPT !.sets = [i \in 1..Len(current.sets) |->
                                        current.sets[Len(current.sets) + 1 - i]]],
             LAMBDA currentSet : RetirementEventsFor(previous, currentSet))

detectRetirementEvents(previous, current) ==
  ForEachSet(current, LAMBDA currentSet : RetirementEventsFor(previous, currentSet))

----------------------------------------------------------------------------
(* checkRetirementPopAchievement                                           *)

\* actualChange >= predictedPop && prevPrice < currentPrice
PopExceeded(actualChange, predictedPop, prevPrice, currentPrice) ==
  RGeq(actualChange, predictedPop) /\ RLt(prevPrice, currentPrice)

\* a variant that does not look at the previous price
TargetValueReached_NoEdge(oneYearValue, prevPrice, currentPrice) ==
  RLt(Zero, oneYearValue) /\ RGeq(currentPrice, oneYearValue)

\* oneYearValue > 0 && currentPrice >= oneYearValue && prevPrice < oneYearValue
TargetValueReached(oneYearValue, prevPrice, currentPrice) ==
  /\ RLt(Zero, oneYearValue)
  /\ RGeq(currentPrice, oneYearValue)
  /\ RLt(prevPrice, oneYearValue)

PopAlert(currentSet, msrp, currentPrice, predictedPop, actualChange) ==
  Alert("POP_ACHIEVED", "HIGH", currentSet,
        "has exceeded its predicted retirement pop!", <<>>,
        [predictedPop |-> Fmt("+", ToFixed2(predictedPop), "%"),
         actualChange |-> Fmt("+", ToFixed2(actualChange), "%"),
         exceededBy   |-> Fmt("+", ToFixed2(RSub(actualChange, predictedPop)), "%"),
         currentPrice |-> Money(currentPrice),
         msrp         |-> Money(msrp),
         profit       |-> Money(RSub(currentPrice, msrp))])

TargetAlert(currentSet, msrp, currentPrice, oneYearValue) ==
  Alert("TARGET_REACHED", "HIGH", currentSet,
        "has reached its 1-year target value!", <<>>,
        [targetValue    |-> Money(oneYearValue),
         currentPrice   |-> Money(currentPrice),
         msrp           |-> Money(msrp),
         roi            |-> Fmt("+", ToFixed2(PercentFromMsrp(currentPrice, msrp)), "%"),
         profit         |-> Money(RSub(currentPrice, msrp)),
         recommendation |-> "Consider selling - target achieved"])

RetirementPopFor(previous, currentSet) ==
  IF ~HasPrev(previous, currentSet) THEN <<>>
  ELSE IF ~isNowRetired(currentSet) THEN <<>>
  ELSE IF Throws({Get(currentSet, "retailPrice"), Get(currentSet, "marketPrice"),
                  Get(PrevSet(previous, currentSet), "marketPrice"),
                  Get(currentSet, "retirementPop"),
                  Get(currentSet, "oneYearRetiredValue")})
  THEN Thrown
  ELSE LET prevSet      == PrevSet(previous, currentSet)
           msrp         == parsePrice(Get(currentSet, "retailPrice"))
           currentPrice == parsePrice(Get(currentSet, "marketPrice"))
           prevPrice    == parsePrice(Get(prevSet, "marketPrice"))
           predictedPop == parsePercent(Get(currentSet, "retirementPop"))
           oneYearValue == parsePrice(Get(currentSet, "oneYearRetiredValue"))
           actualChange == PercentFromMsrp(currentPrice, msrp)
       IN  IF msrp = Zero THEN <<>>
           ELSE (IF PopExceeded(actualChange, predictedPop, prevPrice, currentPrice)
                 THEN <<PopAlert(currentSet, msrp, currentPrice, predictedPop, actualChange)>>
                 ELSE <<>>)
                \o
                (IF TargetValueReached(oneYearValue, prevPrice, currentPrice)
                 THEN <<TargetAlert(currentSet, msrp, currentPrice, oneYearValue)>>
                 ELSE <<>>)

checkRetirementPopAchievement(previous, current) ==
  ForEachSet(current, LAMBDA currentSet : RetirementPopFor(previous, currentSet))

----------------------------------------------------------------------------
(* checkBuyingOpportunities                                                *)

\* a level-triggered variant: below MSRP now, whatever the price was before
DroppedBelowMsrp_LevelTriggered(prevPrice, currentPrice, msrp) == RLt(currentPrice, msrp)

\* wasAboveMSRP && isBelowMSRP
DroppedBelowMsrp(prevPrice, currentPrice, msrp) ==
  LET wasAboveMSRP == RGeq(prevPrice, msrp)
      isBelowMSRP  == RLt(currentPrice, msrp)
  IN  wasAboveMSRP /\ isBelowMSRP

BuyingAlert(currentSet, msrp, currentPrice) ==
  LET discount        == RMul(RDiv(RSub(msrp, currentPrice), msrp), Num(100))
      predictedPop    == parsePercent(Get(currentSet, "retirementPop"))
      potentialProfit == RSub(RMul(msrp, RAdd(Num(1), RDiv(predictedPop, Num(100)))),
                              currentPrice)
  IN  Alert("BUYING_OPPORTUNITY", "MEDIUM", currentSet,
            "is now below MSRP - Buying opportunity!", <<>>,
            [currentPrice       |-> Money(currentPrice),
             msrp               |-> Money(msrp),
             discount           |-> Fmt("-", ToFixed2(discount), "%"),
             savings            |-> Money(RSub(msrp, currentPrice)),
             predictedPop       |-> Fmt("+", ToFixed2(predictedPop), "%"),
             potentialProfit    |-> Money(potentialProfit),
             retirementEstimate |-> Get(currentSet, "retirementEstimate")])

\* a variant that does not skip retired sets
BuyingOpportunitiesFor_RetiredToo(previous, currentSet) ==
  IF ~HasPrev(previous, currentSet) THEN <<>>
  ELSE IF Throws({Get(currentSet, "retailPrice"), Get(currentSet, "marketPrice"),
                  Get(PrevSet(previous, currentSet), "marketPrice")})
  THEN Thrown
  ELSE LET prevSet      == PrevSet(previous, currentSet)
           msrp         == parsePrice(Get(currentSet, "retailPrice"))
           currentPrice == parsePrice(Get(currentSet, "marketPrice"))
           prevPrice    == parsePrice(Get(prevSet, "marketPrice"))
       IN  IF msrp = Zero THEN <<>>
           ELSE IF DroppedBelowMsrp(prevPrice, currentPrice, msrp)
           THEN IF Throws({Get(currentSet, "retirementPop")})
                THEN Thrown
                ELSE <<BuyingAlert(currentSet, msrp, currentPrice)>>
           ELSE <<>>

BuyingOpportunitiesFor(previous, currentSet) ==
  IF ~HasPrev(previous, currentSet) THEN <<>>
  ELSE IF isNowRetired(currentSet) THEN <<>>
  ELSE IF Throws({Get(currentSet, "retailPrice"), Get(currentSet, "marketPrice"),
                  Get(PrevSet(previous, currentSet), "marketPrice")})
  THEN Thrown
  ELSE LET prevSet      == PrevSet(previous, currentSet)
           msrp         == parsePrice(Get(currentSet, "retailPrice"))
           currentPrice == parsePrice(Get(currentSet, "marketPrice"))
           prevPrice    == parsePrice(Get(prevSet, "marketPrice"))
       IN  IF msrp = Zero THEN <<>>
           ELSE IF DroppedBelowMsrp(prevPrice, currentPrice, msrp)
           THEN IF Throws({Get(currentSet, "retirementPop")})
                THEN Thrown
                ELSE <<BuyingAlert(currentSet, msrp, currentPrice)>>
           ELSE <<>>

checkBuyingOpportunities(previous, current) ==
  ForEachSet(current, LAMBDA currentSet : BuyingOpportunitiesFor(previous, currentSet))

----------------------------------------------------------------------------
(* checkNewlyRetiredSets                                                   *)

NewlyRetiredAlert(currentSet) ==
  LET msrp         == parsePrice(Get(currentSet, "retailPrice"))
      currentPrice == parsePrice(Get(currentSet, "marketPrice"))
      predictedPop == parsePercent(Get(currentSet, "retirementPop"))
      priceChange  == PercentFromMsrp(currentPrice, msrp)
  IN  Alert("NEWLY_RETIRED", "HIGH", currentSet, "has just retired!", <<>>,
            [retiredDate    |-> Get(currentSet, "retired"),
             msrp           |-> Money(msrp),
             currentPrice   |-> Money(currentPrice),
             priceChange    |-> Fmt(IF RGeq(priceChange, Zero) THEN "+" ELSE "",
                                    ToFixed2(priceChange), "%"),
             predictedPop   |-> Fmt("+", ToFixed2(predictedPop), "%"),
             recommendation |-> IF RGeq(priceChange, predictedPop)
                                THEN "Pop achieved! Monitor for selling opportunity"
                                ELSE "Watch for retirement pop in coming weeks"])

NewlyRetiredFor(previous, currentSet) ==
  IF ~HasPrev(previous, currentSet) THEN <<>>
  ELSE IF wasNotRetired(PrevSet(previous, currentSet)) /\ isNowRetired(currentSet)
  THEN IF Throws({Get(currentSet, "retailPrice"), Get(currentSet, "marketPrice"),
                  Get(currentSet, "retirementPop")})
       THEN Thrown
       ELSE <<NewlyRetiredAlert(currentSet)>>
  ELSE <<>>

\* a variant that keeps its list of alerts between calls
checkNewlyRetiredSets_SharedList(previous, current) ==
  (IF call.fn = "checkNewlyRetiredSets" THEN call.alerts ELSE <<>>)
    \o ForEachSet(current, LAMBDA currentSet : NewlyRetiredFor(previous, currentSet))

checkNewlyRetiredSets(previous, current) ==
  ForEachSet(current, LAMBDA currentSet : NewlyRetiredFor(previous, currentSet))

----------------------------------------------------------------------------
(* checkROITargets                                                         *)

\* the default parameter value of targetROI
DefaultTargetROI == 20

\* targetROI = 20 in the parameter list: undefined (or no argument) gives 20
TargetROIParam(arg) == IF arg = Undefined THEN Num(DefaultTargetROI) ELSE arg.n

\* a variant with a strict comparison of the current ROI
CrossedTargetROI_Strict(currentROI, prevROI, targetROI) ==
  RLt(targetROI, currentROI) /\ RLt(prevROI, targetROI)

\* currentROI >= targetROI && prevROI < targetROI
CrossedTargetROI(currentROI, prevROI, targetROI) ==
  RGeq(currentROI, targetROI) /\ RLt(prevROI, targetROI)

ROIAlert(currentSet, msrp, currentPrice, currentROI, targetROI) ==
  Alert("ROI_TARGET", "HIGH", currentSet, "has reached ...% ROI target!",
        <<NumText(targetROI)>>,
        [targetROI      |-> Fmt("", NumText(targetROI), "%"),
         currentROI     |-> Fmt("+", ToFixed2(currentROI), "%"),
         purchasePrice  |-> Money(msrp),
         currentPrice   |-> Money(currentPrice),
         profit         |-> Money(RSub(currentPrice, msrp)),
         isRetired      |-> /\ Get(currentSet, "retired") # EmptyString
                            /\ Get(currentSet, "retired") # Null,
         recommendation |-> "Target ROI reached - consider selling"])

\* a variant that takes the previous ROI against the previous record's retail price
ROITargetsFor_PreviousMsrp(previous, currentSet, targetROI) ==
  IF ~HasPrev(previous, currentSet) THEN <<>>
  ELSE LET prevSet      == PrevSet(previous, currentSet)
           msrp         == parsePrice(Get(currentSet, "retailPrice"))
           currentPrice == parsePrice(Get(currentSet, "marketPrice"))
           prevPrice    == parsePrice(Get(prevSet, "marketPrice"))
           currentROI   == PercentFromMsrp(currentPrice, msrp)
           prevROI      == PercentFromMsrp(prevPrice, parsePrice(Get(prevSet, "retailPrice")))
       IN  IF msrp = Zero THEN <<>>
           ELSE IF CrossedTargetROI(currentROI, prevROI, targetROI)
           THEN <<ROIAlert(currentSet, msrp, currentPrice, currentROI, targetROI)>>
           ELSE <<>>

ROITargetsFor(previous, currentSet, targetROI) ==
  IF ~HasPrev(previous, currentSet) THEN <<>>
  ELSE IF Throws({Get(currentSet, "retailPrice"), Get(currentSet, "marketPrice"),
                  Get(PrevSet(previous, currentSet), "marketPrice")})
  THEN Thrown
  ELSE LET prevSet      == PrevSet(previous, currentSet)
           msrp         == parsePrice(Get(currentSet, "retailPrice"))
           currentPrice == parsePrice(Get(currentSet, "marketPrice"))
           prevPrice    == parsePrice(Get(prevSet, "marketPrice"))
           currentROI   == PercentFromMsrp(currentPrice, msrp)
           prevROI      == PercentFromMsrp(prevPrice, msrp)
       IN  IF msrp = Zero THEN <<>>
           ELSE IF CrossedTargetROI(currentROI, prevROI, targetROI)
           THEN <<ROIAlert(currentSet, msrp, currentPrice, currentROI, targetROI)>>
           ELSE <<>>

checkROITargets(previous, current, targetArg) ==
  ForEachSet(current,
             LAMBDA currentSet : ROITargetsFor(previous, currentSet, TargetROIParam(targetArg)))

----------------------------------------------------------------------------
(* The snapshot store reader: loadAnalysisData, getAllSnapshots            *)
(*                                                                         *)
(* A Date is its time value, here in minutes since 1970-01-01T00:00Z, or   *)
(* NaN for an Invalid Date. The content of an analysis-data.json is given  *)
(* by the value JSON.parse returns for it, or as invalid JSON. The value   *)
(* of data.sets is a sequence of records when it is an array; data.setsType *)
(* tells what it is otherwise ("undefined" when the property is absent).   *)

NaN == <<0, 0>>

IsDigits(chars) == \A i \in 1..Len(chars) : chars[i] \in Digits

IsLeapYear(y) == (y % 4 = 0 /\ y % 100 # 0) \/ y % 400 = 0

DaysInMonth(y, m) ==
  CASE m = 2 -> IF IsLeapYear(y) THEN 29 ELSE 28
    [] m \in {4, 6, 9, 11} -> 30
    [] OTHER -> 31

\* the number of days from 1970-01-01 to the day d of month m of year y
DaysFromCivil(y, m, d) ==
  LET yy  == IF m <= 2 THEN y - 1 ELSE y
      era == yy \div 400
      yoe == yy - era * 400
      mp  == IF m > 2 THEN m - 3 ELSE m + 9
      doy == (153 * mp + 2) \div 5 + d - 1
      doe == yoe * 365 + yoe \div 4 - yoe \div 100 + doy
  IN  era * 146097 + doe - 719468

\* the minutes of a day
MinutesPerDay == 1440

\* Date.parse of a date-time string: YYYY-MM-DD or YYYY-MM-DDTHH:mmZ; a text
\* that is no date in any format, or has a field out of range, gives NaN
DateParse(chars) ==
  LET n == Len(chars)
  IN  IF n \notin {10, 17} THEN NaN
      ELSE IF ~(IsDigits(SubSeq(chars, 1, 4)) /\ chars[5] = "-"
                /\ IsDigits(SubSeq(chars, 6, 7)) /\ chars[8] = "-"
                /\ IsDigits(SubSeq(chars, 9, 10))) THEN NaN
      ELSE IF n = 17 /\ ~(chars[11] = "T" /\ IsDigits(SubSeq(chars, 12, 13))
                          /\ chars[14] = ":" /\ IsDigits(SubSeq(chars, 15, 16))
                          /\ chars[17] = "Z") THEN NaN
      ELSE LET y  == DigitsValue(SubSeq(chars, 1, 4), 0)
               m  == DigitsValue(SubSeq(chars, 6, 7), 0)
               d  == DigitsValue(SubSeq(chars, 9, 10), 0)
               h  == IF n = 17 THEN DigitsValue(SubSeq(chars, 12, 13), 0) ELSE 0
               mi == IF n = 17 THEN DigitsValue(SubSeq(chars, 15, 16), 0) ELSE 0
           IN  IF m \notin 1..12 \/ d \notin 1..DaysInMonth(y, m)
                  \/ h > 24 \/ mi > 59 \/ (h = 24 /\ mi > 0)
               THEN NaN
               ELSE Num(DaysFromCivil(y, m, d) * MinutesPerDay + h * 60 + mi)

\* new Date(value) for the value of a property: a string is parsed, an absent
\* value gives an Invalid Date and null the time value 0
NewDate(v) ==
  CASE v.t = "string"    -> DateParse(v.s)
    [] v.t = "undefined" -> NaN
    [] v.t = "null"      -> Zero
    [] v.t = "number"    -> v.n

\* a file that does not exist, a file that is no JSON, a file with a JSON value
NoFile == [kind |-> "missing"]

InvalidJson == [kind |-> "invalid"]

JsonFile(value) == [kind |-> "json", value |-> value]

\* existsSync, readFileSync and JSON.parse in a try block: null when the file
\* is missing or JSON.parse throws
loadAnalysisData(dir) ==
  IF dir.file.kind = "missing" THEN Null
  ELSE IF dir.file.kind = "invalid" THEN Null
  ELSE dir.file.value

\* data && data.analysisDate
HasAnalysisDate(data) ==
  /\ data # Null
  /\ "analysisDate" \in DOMAIN data
  /\ ~Falsy(data.analysisDate)

\* the loop over dirs: the snapshots pushed, in listing order
PushedSnapshots(listing) ==
  LET loop[i \in 0..Len(listing)] ==
        IF i = 0 THEN <<>>
        ELSE LET data == loadAnalysisData(listing[i])
             IN  IF HasAnalysisDate(data)
                 THEN Append(loop[i - 1], [timestamp |-> listing[i].timestamp,
                                           date      |-> NewDate(data.analysisDate),
                                           data      |-> data])
                 ELSE loop[i - 1]
  IN  loop[Len(listing)]

\* sort((a, b) => a.date - b.date) on valid dates: a stable sort, oldest first
SortedByDate(pushed) ==
  LET insert[i \in 0..Len(pushed)] ==
        IF i = 0 THEN <<>>
        ELSE LET x    == pushed[i]
                 done == insert[i - 1]
                 \* the elements of done that a.date - b.date > 0 puts after x
                 k    == Cardinality({j \in 1..Len(done) : RLt(x.date, done[j].date)})
             IN  SubSeq(done, 1, Len(done) - k) \o <<x>>
                   \o SubSeq(done, Len(done) - k + 1, Len(done))
  IN  insert[Len(pushed)]

Reorderings(seq) ==
  {[i \in 1..Len(seq) |-> seq[f[i]]] :
     f \in {g \in [1..Len(seq) -> 1..Len(seq)] : \A i, j \in 1..Len(seq) : g[i] = g[j] => i = j}}

\* with an Invalid Date the comparator returns NaN, is not a consistent
\* comparator, and the order sort leaves is implementation-defined
SortOutcomes(pushed) ==
  IF \E i \in 1..Len(pushed) : IsNaN(pushed[i].date)
  THEN Reorderings(pushed)
  ELSE {SortedByDate(pushed)}

\* the arrays a call of getAllSnapshots may return for a directory listing
getAllSnapshots(listing) == SortOutcomes(PushedSnapshots(listing))

\* whether data.sets is an array
SetsIsArray(data) == "setsType" \notin DOMAIN data \/ data.setsType = "array"

----------------------------------------------------------------------------
(* main                                                                    *)

NotRun == [status |-> "not run"]

\* the four checks main runs on the last two snapshots, by category
AllAlerts(previous, current) ==
  [category \in {"Newly Retired Sets", "Retirement Pop Achieved",
                 "Buying Opportunities", "ROI Targets (20%)"} |->
     CASE category = "Newly Retired Sets"      -> checkNewlyRetiredSets(previous, current)
       [] category = "Retirement Pop Achieved" -> checkRetirementPopAchievement(previous, current)
       [] category = "Buying Opportunities"    -> checkBuyingOpportunities(previous, current)
       [] category = "ROI Targets (20%)"       -> checkROITargets(previous, current, NumberValue(Num(20)))]

\* previous.sets.map(...) and the loop over current.sets throw a TypeError when
\* the value is not an array, a detector throws one when a parser does; main's
\* promise is then rejected
MainOutput(all) ==
  IF Len(all) < 2
  THEN [status |-> "Need at least 2 snapshots to compare.", count |-> Len(all)]
  ELSE LET previous == all[Len(all) - 1].data
           current  == all[Len(all)].data
       IN  IF ~SetsIsArray(previous) \/ ~SetsIsArray(current)
           THEN [status    |-> "TypeError",
                 comparing |-> <<previous.analysisDate, current.analysisDate>>]
           ELSE Once(AllAlerts(previous, current), LAMBDA allAlerts :
                  IF \E category \in DOMAIN allAlerts : allAlerts[category] = Thrown
                  THEN [status    |-> "TypeError",
                        comparing |-> <<previous.analysisDate, current.analysisDate>>]
                  ELSE [status    |-> "Alert monitoring complete.",
                        comparing |-> <<previous.analysisDate, current.analysisDate>>,
                        allAlerts |-> allAlerts])

Compared(report) == report.status = "Alert monitoring complete."

----------------------------------------------------------------------------
(* The price tracker: calculateChange, trackSetPrices, generateReport      *)

\* !x for a number x
FalsyNumber(x) == x = Zero \/ IsNaN(x)

\* a variant that computes the change from a new price of 0 as well
calculateChange_FromAnyNewPrice(oldPrice, newPrice) ==
  IF FalsyNumber(oldPrice)
  THEN [amount |-> Zero, percent |-> Zero]
  ELSE [amount  |-> RSub(newPrice, oldPrice),
        percent |-> RMul(RDiv(RSub(newPrice, oldPrice), oldPrice), Num(100))]

calculateChange(oldPrice, newPrice) ==
  IF FalsyNumber(oldPrice) \/ FalsyNumber(newPrice)
  THEN [amount |-> Zero, percent |-> Zero]
  ELSE [amount  |-> RSub(newPrice, oldPrice),
        percent |-> RMul(RDiv(RSub(newPrice, oldPrice), oldPrice), Num(100))]

\* Math.floor of a number
Floor(x) == IF IsFinite(x) THEN Num(x[1] \div x[2]) ELSE x

\* snapshot.data.sets.find((s) => s.setNumber === setNumber): the index of the
\* first such record, 0 when there is none
FindIndex(sets, setNumber) ==
  LET hits == {i \in 1..Len(sets) : Get(sets[i], "setNumber") = setNumber}
  IN  IF hits = {} THEN 0 ELSE CHOOSE i \in hits : \A j \in hits : i <= j

DataPoint(snapshot, setData) ==
  [date               |-> snapshot.date,
   timestamp          |-> snapshot.timestamp,
   marketPrice        |-> parsePrice(Get(setData, "currentMarketPrice")),
   availability       |-> Get(setData, "availability"),
   retired            |-> Get(setData, "retired"),
   retirementEstimate |-> Get(setData, "retirementEstimate"),
   retirementPop      |-> parsePercent(Get(setData, "retirementPop")),
   firstYearGrowth    |-> parsePercent(Get(setData, "annualGrowthFirstYear")),
   oneYearValue       |-> parsePrice(Get(setData, "oneYearRetiredValue"))]

\* last.retired !== "" && last.retired !== null
hasRetired(last) == last.retired # EmptyString /\ last.retired # Null

Summary(dataPoints) ==
  LET first  == dataPoints[1]
      last   == dataPoints[Len(dataPoints)]
      change == calculateChange(first.marketPrice, last.marketPrice)
  IN  [firstSeen        |-> first.date,
       lastSeen         |-> last.date,
       daysTracked      |-> Floor(RDiv(RSub(last.date, first.date), Num(MinutesPerDay))),
       snapshotCount    |-> Len(dataPoints),
       priceChange      |-> [initial |-> first.marketPrice,
                             current |-> last.marketPrice,
                             amount  |-> change.amount,
                             percent |-> change.percent],
       retirementStatus |-> [initial     |-> first.availability,
                             current     |-> last.availability,
                             hasRetired  |-> hasRetired(last),
                             retiredDate |-> last.retired]]

\* !history.name
BasicInfoMissing(history) == Falsy(history.name)

\* the history after the loop over the snapshots; msrp is null or a number
TrackedHistory(setNumber, all) ==
  LET loop[i \in 0..Len(all)] ==
        IF i = 0
        THEN [setNumber |-> setNumber, name |-> Null, theme |-> Null, msrp |-> Null,
              dataPoints |-> <<>>]
        ELSE LET sets == all[i].data.sets
                 k    == FindIndex(sets, setNumber)
                 step(history) ==
                   IF k = 0 THEN history
                   ELSE LET setData == sets[k]
                            named   ==
                              IF BasicInfoMissing(history)
                              THEN [history EXCEPT
                                      !.name  = Get(setData, "name"),
                                      !.theme = Get(setData, "theme"),
                                      !.msrp  = NumberValue(parsePrice(Get(setData, "retailPrice")))]
                              ELSE history
                        IN  [named EXCEPT
                               !.dataPoints = Append(@, DataPoint(all[i], setData))]
             IN  Once(loop[i - 1], step)
  IN  loop[Len(all)]

\* a variant that summarises a single data point as well
trackSetPrices_SummaryOfOnePoint(setNumber, all) ==
  LET summarised(history) ==
        IF Len(history.dataPoints) > 0
        THEN [setNumber  |-> history.setNumber,
              name       |-> history.name,
              theme      |-> history.theme,
              msrp       |-> history.msrp,
              dataPoints |-> history.dataPoints,
              summary    |-> Summary(history.dataPoints)]
        ELSE history
  IN  Once(TrackedHistory(setNumber, all), summarised)

trackSetPrices(setNumber, all) ==
  LET summarised(history) ==
        IF Len(history.dataPoints) > 1
        THEN [setNumber  |-> history.setNumber,
              name       |-> history.name,
              theme      |-> history.theme,
              msrp       |-> history.msrp,
              dataPoints |-> history.dataPoints,
              summary    |-> Summary(history.dataPoints)]
        ELSE history
  IN  Once(TrackedHistory(setNumber, all), summarised)

\* the set numbers of all snapshots, in the order a Set keeps them: first added
UniqueSetNumbers(all) ==
  LET add(seq, x) == IF \E i \in 1..Len(seq) : seq[i] = x THEN seq ELSE Append(seq, x)
      \* the set numbers of one snapshot added to seq, in the order of its sets
      inner(seq, sets) ==
        LET each[j \in 0..Len(sets)] ==
              IF j = 0 THEN seq ELSE add(each[j - 1], Get(sets[j], "setNumber"))
        IN  each[Len(sets)]
      outer[i \in 0..Len(all)] ==
        IF i = 0 THEN <<>> ELSE inner(outer[i - 1], all[i].data.sets)
  IN  outer[Len(all)]

\* Math.abs(summary.priceChange.percent), 0 for a history without a summary
AbsChange(history) ==
  IF "summary" \in DOMAIN history
  THEN LET x == history.summary.priceChange.percent IN <<Abs(x[1]), x[2]>>
  ELSE Zero

\* sort((a, b) => bChange - aChange): a stable sort, the largest change first
SortedByChange(histories) ==
  LET insert[i \in 0..Len(histories)] ==
        IF i = 0 THEN <<>>
        ELSE LET x    == histories[i]
                 done == insert[i - 1]
                 k    == Cardinality({j \in 1..Len(done) :
                                        RLt(AbsChange(done[j]), AbsChange(x))})
             IN  SubSeq(done, 1, Len(done) - k) \o <<x>>
                   \o SubSeq(done, Len(done) - k + 1, Len(done))
  IN  insert[Len(histories)]

\* a variant that reports on a single snapshot as on several
generateReport_OfOneSnapshot(all) ==
  IF Len(all) = 0
  THEN [status |-> "No analysis data found. Run analyzeSetDetails.js first."]
  ELSE IF \E i \in 1..Len(all) : ~SetsIsArray(all[i].data)
  THEN [status |-> "TypeError"]
  ELSE LET setNumbers == UniqueSetNumbers(all)
           tracked    == [i \in 1..Len(setNumbers) |-> trackSetPrices(setNumbers[i], all)]
           nonEmpty   == SelectSeq(tracked, LAMBDA h : Len(h.dataPoints) > 0)
       IN  [status         |-> "LEGO SET PRICE TRACKING REPORT",
            period         |-> <<all[1].date, all[Len(all)].date>>,
            totalSnapshots |-> Len(all),
            setHistories   |-> Once(nonEmpty, SortedByChange)]

\* the report, given by the status text or by what it renders: the period,
\* the number of snapshots and the histories in the order of the report;
\* snapshot.data.sets.forEach throws a TypeError when sets is not an array
generateReport(all) ==
  IF Len(all) = 0
  THEN [status |-> "No analysis data found. Run analyzeSetDetails.js first."]
  ELSE IF Len(all) = 1
  THEN [status |-> "Only one snapshot found", date |-> all[1].date]
  ELSE IF \E i \in 1..Len(all) : ~SetsIsArray(all[i].data)
  THEN [status |-> "TypeError"]
  ELSE LET setNumbers == UniqueSetNumbers(all)
           tracked    == [i \in 1..Len(setNumbers) |-> trackSetPrices(setNumbers[i], all)]
           nonEmpty   == SelectSeq(tracked, LAMBDA h : Len(h.dataPoints) > 0)
       IN  [status         |-> "LEGO SET PRICE TRACKING REPORT",
            period         |-> <<all[1].date, all[Len(all)].date>>,
            totalSnapshots |-> Len(all),
            setHistories   |-> Once(nonEmpty, SortedByChange)]

----------------------------------------------------------------------------
(* Inputs: the snapshot records the monitor is run on                      *)

SetA == Str(<<"7", "5">>)

SetB == Str(<<"7", "6">>)

Retired2024 == Str(<<"2", "0", "2", "4", "-", "0", "6">>)

Usd95 == Str(<<"$", "9", "5", ".", "0", "0">>)

Usd100 == Str(<<"$", "1", "0", "0">>)

Usd110 == Str(<<"$", "1", "1", "0">>)

Usd120 == Str(<<"$", "1", "2", "0">>)

Usd130 == Str(<<"$", "1", "3", "0">>)

MinusUsd100 == Str(<<"-", "$", "1", "0", "0">>)

Pop10 == Str(<<"+", "1", "0", "%">>)

PopMinus250 == Str(<<"-", "2", "5", "0", "%">>)

\* one item record of analysis-data.json
SetRecord(setNumber, retired, retailPrice, marketPrice, retirementPop, oneYearRetiredValue) ==
  [setNumber           |-> setNumber,
   name                |-> Str(<<"N", Head(setNumber.s)>>),
   availability        |-> Str(<<"R">>),
   retirementEstimate  |-> Str(<<"2", "0", "2", "6">>),
   retired             |-> retired,
   retailPrice         |-> retailPrice,
   marketPrice         |-> marketPrice,
   retirementPop       |-> retirementPop,
   oneYearRetiredValue |-> oneYearRetiredValue]

\* records of set A in the current snapshot: retired or not, with a retail
\* price that is missing, positive or negative, and a price below, between
\* and at the thresholds
CurrentRecordsA ==
  {SetRecord(SetA, r, m, p, Pop10, y) :
     r \in {Undefined, EmptyString, Retired2024},
     m \in {EmptyString, Usd100},
     p \in {Usd95, Usd110, Usd120},
     y \in {EmptyString, Usd120}}
  \cup
  {SetRecord(SetA, r, MinusUsd100, p, pop, Usd120) :
     r \in {Undefined, EmptyString, Retired2024},
     p \in {Usd95, Usd110, Usd120},
     pop \in {Pop10, PopMinus250}}

\* records of set A in the previous snapshot; its retail price may differ from
\* the one of the current snapshot
PreviousRecordsA ==
  {SetRecord(SetA, r, m, p, Pop10, Usd120) :
     r \in {Undefined, EmptyString, Retired2024},
     m \in {Usd100, Usd120},
     p \in {Usd95, Usd110, Usd120}}

\* a second set, that retires or not and reaches 120 from below
CurrentRecordsB ==
  {SetRecord(SetB, r, Usd100, Usd120, Pop10, Usd120) : r \in {EmptyString, Retired2024}}

PreviousRecordsB == {SetRecord(SetB, EmptyString, Usd100, Usd110, Pop10, Usd120)}

\* the lists of a snapshot: no set, one of the two, or both in either order
SetLists(as, bs) ==
  {<<>>} \cup {<<a>> : a \in as} \cup {<<b>> : b \in bs}
         \cup {<<a, b>> : a \in as, b \in bs} \cup {<<b, a>> : a \in as, b \in bs}

\* the previous snapshot is only looked up by setNumber: one order is enough
PreviousLists(as, bs) ==
  {<<>>} \cup {<<a>> : a \in as} \cup {<<b>> : b \in bs}
         \cup {<<a, b>> : a \in as, b \in bs}

\* an element of the array getAllSnapshots returns
Snapshot(date, sets) == [date |-> date, data |-> [analysisDate |-> date, sets |-> sets]]

\* the targetROI arguments checkROITargets is called with (Undefined: none)
TargetArgs == {Undefined, NumberValue(Num(10))}

\* how often the same call is repeated on the same pair
MaxRepeat == 2

\* the longest series of snapshots
MaxSnapshots == 3

----------------------------------------------------------------------------
(* The detectors called on a pair (previous, current)                      *)

NoCall == [fn |-> "none"]

\* one run calls one detector, once or repeatedly
Idle(fn) == call.fn \in {"none", fn}

Previous == snapshots[Len(snapshots) - 1].data

Current == snapshots[Len(snapshots)].data

Returned(fn, arg, alerts) ==
  [fn     |-> fn,
   arg    |-> arg,
   alerts |-> alerts,
   times  |-> IF call.fn = fn /\ call.arg = arg
              THEN (IF call.times < MaxRepeat THEN call.times + 1 ELSE call.times)
              ELSE 1]

Init ==
  /\ \E prev \in PreviousLists(PreviousRecordsA, PreviousRecordsB) :
       \E cur \in SetLists(CurrentRecordsA, CurrentRecordsB) :
         snapshots = <<Snapshot(1, prev), Snapshot(2, cur)>>
  /\ reports = [n \in 0..MaxSnapshots |-> NotRun]
  /\ call = NoCall
  /\ dirs = <<>>
  /\ fetcher = NotFetching
  /\ NoRegistry

CallDetectRetirementEvents ==
  /\ Len(snapshots) >= 2
  /\ Idle("detectRetirementEvents")
  /\ call' = Returned("detectRetirementEvents", Undefined,
                      detectRetirementEvents(Previous, Current))
  /\ UNCHANGED <<dirs, snapshots, reports, fetcher, registry, clock, callLog>>

CallCheckRetirementPopAchievement ==
  /\ Len(snapshots) >= 2
  /\ Idle("checkRetirementPopAchievement")
  /\ call' = Returned("checkRetirementPopAchievement", Undefined,
                      checkRetirementPopAchievement(Previous, Current))
  /\ UNCHANGED <<dirs, snapshots, reports, fetcher, registry, clock, callLog>>

CallCheckBuyingOpportunities ==
  /\ Len(snapshots) >= 2
  /\ Idle("checkBuyingOpportunities")
  /\ call' = Returned("checkBuyingOpportunities", Undefined,
                      checkBuyingOpportunities(Previous, Current))
  /\ UNCHANGED <<dirs, snapshots, reports, fetcher, registry, clock, callLog>>

CallCheckNewlyRetiredSets ==
  /\ Len(snapshots) >= 2
  /\ Idle("checkNewlyRetiredSets")
  /\ call' = Returned("checkNewlyRetiredSets", Undefined,
                      checkNewlyRetiredSets(Previous, Current))
  /\ UNCHANGED <<dirs, snapshots, reports, fetcher, registry, clock, callLog>>

CallCheckROITargets ==
  /\ Len(snapshots) >= 2
  /\ Idle("checkROITargets")
  /\ \E targetArg \in TargetArgs :
       call' = Returned("checkROITargets", targetArg,
                        checkROITargets(Previous, Current, targetArg))
  /\ UNCHANGED <<dirs, snapshots, reports, fetcher, registry, clock, callLog>>

Next ==
  \/ CallDetectRetirementEvents
  \/ CallCheckRetirementPopAchievement
  \/ CallCheckBuyingOpportunities
  \/ CallCheckNewlyRetiredSets
  \/ CallCheckROITargets

Spec == Init /\ [][Next]_vars

----------------------------------------------------------------------------
(* The monitor run over a growing series of snapshots                      *)

\* records of set A along a series: the retail price may change between snapshots
SeriesRecords ==
  {SetRecord(SetA, r, m, p, Pop10, Usd120) :
     r \in {EmptyString, Retired2024},
     m \in {Usd100, Usd120},
     p \in {Usd95, Usd110, Usd130}}

SeriesInit ==
  /\ snapshots = <<>>
  /\ reports = [n \in 0..MaxSnapshots |-> NotRun]
  /\ call = NoCall
  /\ dirs = <<>>
  /\ fetcher = NotFetching
  /\ NoRegistry

\* a run of the analysis adds a snapshot, newer than the ones before
NewSnapshot ==
  /\ Len(snapshots) < MaxSnapshots
  /\ \E sets \in {<<>>} \cup {<<a>> : a \in SeriesRecords} :
       snapshots' = Append(snapshots, Snapshot(Len(snapshots) + 1, sets))
  /\ UNCHANGED <<dirs, reports, call, fetcher, registry, clock, callLog>>

\* a run of the monitor, recorded under the number of snapshots it found
Main ==
  /\ reports' = [reports EXCEPT ![Len(snapshots)] = MainOutput(snapshots)]
  /\ UNCHANGED <<dirs, snapshots, call, fetcher, registry, clock, callLog>>

SeriesNext == NewSnapshot \/ Main

SeriesSpec == SeriesInit /\ [][SeriesNext]_vars

----------------------------------------------------------------------------
(* The programs run on a directory of snapshots                            *)

Date1 == Str(<<"2", "0", "2", "4", "-", "0", "1", "-", "0", "1">>)

Date2 == Str(<<"2", "0", "2", "4", "-", "0", "1", "-", "0", "2", "T", "1", "2", ":", "0", "0", "Z">>)

Date3 == Str(<<"2", "0", "2", "4", "-", "0", "1", "-", "1", "1">>)

NoDate == Str(<<"n", "/", "a">>)

\* the value of a well-formed analysis-data.json
AnalysisData(analysisDate, sets) ==
  [analysisDate |-> analysisDate, sets |-> sets, setsType |-> "array"]

\* the well-formed files: set A on two dates before it retires and on a
\* third date after
WellFormedFiles ==
  {JsonFile(AnalysisData(Date1, <<SetRecord(SetA, EmptyString, Usd100, Usd110, Pop10, Usd120)>>)),
   JsonFile(AnalysisData(Date2, <<SetRecord(SetA, EmptyString, Usd100, Usd110, Pop10, Usd120)>>)),
   JsonFile(AnalysisData(Date3, <<SetRecord(SetA, Retired2024, Usd100, Usd120, Pop10, Usd120)>>))}

\* a missing file, invalid JSON, no analysisDate, an analysisDate that is no
\* date, no sets property, and a sets property that is an object
MalformedFiles ==
  {NoFile,
   InvalidJson,
   JsonFile([sets |-> <<>>, setsType |-> "array"]),
   JsonFile(AnalysisData(NoDate, <<SetRecord(SetA, EmptyString, Usd100, Usd110, Pop10, Usd120)>>)),
   JsonFile([analysisDate |-> Date2, sets |-> <<>>, setsType |-> "undefined"]),
   JsonFile([analysisDate |-> Date2, sets |-> <<>>, setsType |-> "object"])}

\* the directories of at most n entries with files of the given set; an entry
\* is named by its place in the listing
Listings(files, n) ==
  UNION {{[i \in 1..k |-> [timestamp |-> i, file |-> f[i]]] : f \in [1..k -> files]} : k \in 0..n}

StoreInit ==
  /\ dirs \in Listings(WellFormedFiles \cup MalformedFiles, MaxSnapshots)
  /\ fetcher = NotFetching
  /\ NoRegistry
  /\ snapshots = <<>>
  /\ reports = [n \in 0..MaxSnapshots |-> NotRun]
  /\ call = NoCall

\* the run of the monitor on the directory: main, called once, loads the
\* snapshots and compares the last two
RunMonitor ==
  /\ \A n \in DOMAIN reports : reports[n] = NotRun
  /\ \E loaded \in getAllSnapshots(dirs) :
       /\ snapshots' = loaded
       /\ reports' = [reports EXCEPT ![Len(loaded)] = MainOutput(loaded)]
  /\ UNCHANGED <<dirs, call, fetcher, registry, clock, callLog>>

\* the price tracker's report on the snapshots that were loaded, none before
\* the first load
CallGenerateReport ==
  /\ call' = [fn |-> "generateReport", arg |-> snapshots,
              result |-> generateReport(snapshots)]
  /\ UNCHANGED <<dirs, snapshots, reports, fetcher, registry, clock, callLog>>

StoreNext == RunMonitor \/ CallGenerateReport

StoreSpec == StoreInit /\ [][StoreNext]_vars

----------------------------------------------------------------------------
(* trackSetPrices called on the snapshots of a directory                   *)

Usd20 == Str(<<"$", "2", "0">>)

Usd25 == Str(<<"$", "2", "5">>)

\* one item record as the price tracker reads it
TrackedRecord(setNumber, name, theme, retailPrice, price, retired) ==
  IF retired = Undefined
  THEN [setNumber |-> setNumber, name |-> name, theme |-> theme,
        retailPrice |-> retailPrice, currentMarketPrice |-> price,
        availability |-> Str(<<"R">>), retirementPop |-> Pop10]
  ELSE [setNumber |-> setNumber, name |-> name, theme |-> theme,
        retailPrice |-> retailPrice, currentMarketPrice |-> price,
        availability |-> Str(<<"R">>), retirementPop |-> Pop10,
        retired |-> retired]

NameA == Str(<<"N", "a">>)

NameB == Str(<<"N", "b">>)

Theme1 == Str(<<"T", "1">>)

Theme2 == Str(<<"T", "2">>)

\* records of set A: with a price that is missing, 20 or 25; with a name that
\* is empty or changes, together with the theme and the retail price; with a
\* retired marker that is absent, empty or set
TrackedRecordsA ==
  {TrackedRecord(SetA, NameA, Theme1, Usd100, p, EmptyString) : p \in {EmptyString, Usd20, Usd25}}
  \cup {TrackedRecord(SetA, EmptyString, Theme1, Usd100, Usd20, EmptyString),
        TrackedRecord(SetA, NameB, Theme2, Usd120, Usd20, EmptyString)}
  \cup {TrackedRecord(SetA, NameA, Theme1, Usd100, Usd25, r) : r \in {Undefined, Retired2024}}

\* the lists of sets of a tracked snapshot: none, set A, set A twice, set B
TrackedSets ==
  {<<>>} \cup {<<a>> : a \in TrackedRecordsA}
  \cup {<<TrackedRecord(SetA, NameA, Theme1, Usd100, Usd20, EmptyString),
          TrackedRecord(SetA, NameA, Theme1, Usd100, Usd25, EmptyString)>>,
        <<TrackedRecord(SetB, NameB, Theme2, Usd120, Usd25, EmptyString)>>}

TrackedDates == <<Date1, Date2, Date3>>

\* the directories of at most n well-formed files, dated in turn by
\* TrackedDates, each with one of the lists of sets
TrackedListings(n) ==
  UNION {{[i \in 1..k |->
             [timestamp |-> i,
              file |-> JsonFile(AnalysisData(
                         TrackedDates[((i - 1) % Len(TrackedDates)) + 1], sets[i]))]] :
            sets \in [1..k -> TrackedSets]} : k \in 0..n}

\* the snapshots are loaded: main of the price tracker has called getAllSnapshots
TrackerInit ==
  /\ dirs \in TrackedListings(MaxSnapshots)
  /\ fetcher = NotFetching
  /\ NoRegistry
  /\ snapshots \in getAllSnapshots(dirs)
  /\ reports = [n \in 0..MaxSnapshots |-> NotRun]
  /\ call = NoCall

CallTrackSetPrices ==
  /\ \E setNumber \in {SetA, SetB} :
       call' = [fn |-> "trackSetPrices", arg |-> setNumber,
                result |-> trackSetPrices(setNumber, snapshots)]
  /\ UNCHANGED <<dirs, snapshots, reports, fetcher, registry, clock, callLog>>

TrackerNext == CallTrackSetPrices

TrackerSpec == TrackerInit /\ [][TrackerNext]_vars

----------------------------------------------------------------------------
(* The parsers called on the value of a record field                       *)

MaxChars == 3

ParserChars == {"$", ",", "-", "+", "%", ".", "1", "5", "x"}

\* the strings of at most MaxChars characters
ShortStrings == UNION {[1..k -> ParserChars] : k \in 0..MaxChars}

\* "$1,234.50", "-$100", "+12.5%", "$110 - $120", "1e3", "Infinity"
LongStrings ==
  {<<"$", "1", ",", "2", "3", "4", ".", "5", "0">>,
   <<"-", "$", "1", "0", "0">>,
   <<"+", "1", "2", ".", "5", "%">>,
   <<"$", "1", "1", "0", " ", "-", " ", "$", "1", "2", "0">>,
   <<"1", "e", "3">>,
   <<"I", "n", "f", "i", "n", "i", "t", "y">>}

\* the values a field of a record parsed from JSON can have: absent, null,
\* a string, a number (0 and 349.99)
FieldValues ==
  {Undefined, Null, NumberValue(Zero), NumberValue(Rat(34999, 100))}
    \cup {Str(chars) : chars \in ShortStrings \cup LongStrings}

ParserInit ==
  /\ dirs = <<>>
  /\ fetcher = NotFetching
  /\ NoRegistry
  /\ snapshots = <<>>
  /\ reports = [n \in 0..MaxSnapshots |-> NotRun]
  /\ call \in {[fn |-> "input", arg |-> v] : v \in FieldValues}

CallParsePrice ==
  /\ call' = [fn |-> "parsePrice", arg |-> call.arg, result |-> parsePrice(call.arg)]
  /\ UNCHANGED <<dirs, snapshots, reports, fetcher, registry, clock, callLog>>

CallParsePercent ==
  /\ call' = [fn |-> "parsePercent", arg |-> call.arg, result |-> parsePercent(call.arg)]
  /\ UNCHANGED <<dirs, snapshots, reports, fetcher, registry, clock, callLog>>

ParserNext == CallParsePrice \/ CallParsePercent

ParserSpec == ParserInit /\ [][ParserNext]_vars

----------------------------------------------------------------------------
(* The detectors on a pair with an item whose fields are missing or        *)
(* malformed                                                               *)

\* the values of a field that is absent, null, empty, unparseable text, or a
\* JSON number in place of the text
MalformedValues ==
  {Undefined, Null, EmptyString, Str(<<"x">>), NumberValue(Num(95))}

ItemFields ==
  {"retired", "retailPrice", "marketPrice", "retirementPop", "oneYearRetiredValue"}

\* records of set A with one field missing or malformed
MalformedRecords(rec) ==
  {[rec EXCEPT ![f] = v] : f \in ItemFields, v \in MalformedValues}

\* set A at 110 in the previous and at 95 or 120 in the current snapshot,
\* retiring or not, one field of one of its records malformed; set B
\* well-formed
MalformedPairs ==
  LET prevA == SetRecord(SetA, EmptyString, Usd100, Usd110, Pop10, Usd120)
      curAs == {SetRecord(SetA, r, Usd100, p, Pop10, Usd120) :
                  r \in {EmptyString, Retired2024}, p \in {Usd95, Usd120}}
      as    == {<<a, c>> : a \in MalformedRecords(prevA), c \in curAs}
                 \cup {<<prevA, c>> : c \in UNION {MalformedRecords(a) : a \in curAs}}
  IN  UNION {{<<<<pair[1], prevB>>, <<pair[2], b>>>>, <<<<pair[1], prevB>>, <<b, pair[2]>>>>} :
                pair \in as, prevB \in PreviousRecordsB, b \in CurrentRecordsB}

MalformedInit ==
  /\ \E pair \in MalformedPairs :
       snapshots = <<Snapshot(1, pair[1]), Snapshot(2, pair[2])>>
  /\ reports = [n \in 0..MaxSnapshots |-> NotRun]
  /\ call = NoCall
  /\ dirs = <<>>
  /\ fetcher = NotFetching
  /\ NoRegistry

MalformedSpec == MalformedInit /\ [][Next]_vars

----------------------------------------------------------------------------
(* fetchSetDetails.js: the loop that fetches the detail page of each set   *)

\* the longest list of sets of a set-numbers file
MaxSets == 4

\* the lists parseSetNumbersFile returns: from no set to MaxSets sets
ParsedSets == {[k \in 1..n |-> k] : n \in 0..MaxSets}

\* fetcher.pc: the statement the run is at
\* fetcher.i:  the loop index, from 0
\* fetcher.log: the requests, saved files, delays and reported errors so far
FetchInit ==
  /\ \E sets \in ParsedSets :
       fetcher = [pc |-> "start", sets |-> sets, i |-> 0, browser |-> "none", log |-> <<>>]
  /\ NoRegistry
  /\ dirs = <<>>
  /\ snapshots = <<>>
  /\ reports = [n \in 0..MaxSnapshots |-> NotRun]
  /\ call = NoCall

Logged(event) == Append(fetcher.log, [event |-> event, i |-> fetcher.i])

\* for (let i = 0; i < sets.length; i++): to the body, or past the loop
LoopFrom(i) == IF i < Len(fetcher.sets) THEN "fetch" ELSE "close"

\* with no set the run exits before a browser is launched; otherwise
\* initBrowser, newPage and the first test of the loop
InitBrowser ==
  /\ fetcher.pc = "start"
  /\ fetcher' = IF Len(fetcher.sets) = 0
                THEN [fetcher EXCEPT !.pc = "exit"]
                ELSE [fetcher EXCEPT !.pc = LoopFrom(0), !.browser = "open"]
  /\ UNCHANGED <<dirs, snapshots, reports, call, registry, clock, callLog>>

\* await fetchPageContent(page, set.url): resolves, or rejects into the catch
FetchPageContent ==
  /\ fetcher.pc = "fetch"
  /\ \E resolves \in BOOLEAN :
       fetcher' = [fetcher EXCEPT !.pc = IF resolves THEN "save" ELSE "catch",
                                  !.log = Logged("request")]
  /\ UNCHANGED <<dirs, snapshots, reports, call, registry, clock, callLog>>

\* saveFile(filename, content, outputDir): returns, or throws into the catch;
\* after it the delay unless this was the last set
SaveFile ==
  /\ fetcher.pc = "save"
  /\ \/ fetcher' = [fetcher EXCEPT !.pc = "catch"]
     \/ /\ fetcher.i < Len(fetcher.sets) - 1
        /\ fetcher' = [fetcher EXCEPT !.pc = "delay", !.log = Logged("saved")]
     \/ /\ ~(fetcher.i < Len(fetcher.sets) - 1)
        /\ fetcher' = [fetcher EXCEPT !.pc = LoopFrom(fetcher.i + 1),
                                      !.i = fetcher.i + 1,
                                      !.log = Logged("saved")]
  /\ UNCHANGED <<dirs, snapshots, reports, call, registry, clock, callLog>>

\* await new Promise((resolve) => setTimeout(resolve, 1000)), then i++
Delay ==
  /\ fetcher.pc = "delay"
  /\ fetcher' = [fetcher EXCEPT !.pc = LoopFrom(fetcher.i + 1),
                                !.i = fetcher.i + 1,
                                !.log = Logged("delay")]
  /\ UNCHANGED <<dirs, snapshots, reports, call, registry, clock, callLog>>

\* process.exit(1) in the place of the catch of the loop
CatchError_Fatal ==
  /\ fetcher.pc = "catch"
  /\ fetcher' = [fetcher EXCEPT !.pc = "exit", !.log = Logged("error")]
  /\ UNCHANGED <<dirs, snapshots, reports, call, registry, clock, callLog>>

\* catch (error) { console.error(...) }, then i++
CatchError ==
  /\ fetcher.pc = "catch"
  /\ fetcher' = [fetcher EXCEPT !.pc = LoopFrom(fetcher.i + 1),
                                !.i = fetcher.i + 1,
                                !.log = Logged("error")]
  /\ UNCHANGED <<dirs, snapshots, reports, call, registry, clock, callLog>>

\* await browser.close()
CloseBrowser ==
  /\ fetcher.pc = "close"
  /\ fetcher' = [fetcher EXCEPT !.pc = "done", !.browser = "closed"]
  /\ UNCHANGED <<dirs, snapshots, reports, call, registry, clock, callLog>>

FetchNext ==
  \/ InitBrowser
  \/ FetchPageContent
  \/ SaveFile
  \/ Delay
  \/ CatchError
  \/ CloseBrowser

FetchSpec == FetchInit /\ [][FetchNext]_vars

\* every await of the run settles: a navigation resolves or is rejected by its
\* timeout, the timer of the delay fires
FetchLiveSpec == FetchSpec /\ WF_vars(FetchNext)

----------------------------------------------------------------------------
(* SetRegistry: addSet, removeSet, markAsMonitored, count                  *)

\* { ...a, ...b }
Spread(a, b) ==
  [k \in DOMAIN a \cup DOMAIN b |-> IF k \in DOMAIN b THEN b[k] ELSE a[k]]

\* the values new Date() can return next: time does not go back
Dates == {clock, clock + 1}

\* a new set with timesFound 2 in the place of 1
addSet_NewSetFoundTwice(sets, setNumber, setInfo, first, last) ==
  IF setNumber \in DOMAIN sets
  THEN [sets EXCEPT ![setNumber] =
          Spread(Spread(sets[setNumber], setInfo),
                 [lastSeen   |-> last,
                  timesFound |-> (IF sets[setNumber].timesFound = 0
                                  THEN 1 ELSE sets[setNumber].timesFound) + 1])]
  ELSE [k \in DOMAIN sets \cup {setNumber} |->
          IF k = setNumber
          THEN Spread(setInfo, [firstSeen |-> first, lastSeen |-> last, timesFound |-> 2])
          ELSE sets[k]]

\* this.sets after addSet(setNumber, setInfo), first and last being the
\* values of the calls of new Date() for firstSeen and lastSeen
addSet(sets, setNumber, setInfo, first, last) ==
  IF setNumber \in DOMAIN sets
  THEN [sets EXCEPT ![setNumber] =
          Spread(Spread(sets[setNumber], setInfo),
                 [lastSeen   |-> last,
                  timesFound |-> (IF sets[setNumber].timesFound = 0
                                  THEN 1 ELSE sets[setNumber].timesFound) + 1])]
  ELSE [k \in DOMAIN sets \cup {setNumber} |->
          IF k = setNumber
          THEN Spread(setInfo, [firstSeen |-> first, lastSeen |-> last, timesFound |-> 1])
          ELSE sets[k]]

\* this.sets.size
count(sets) == Cardinality(DOMAIN sets)

\* this.sets after this.sets.delete(setNumber)
removeSet(sets, setNumber) == [k \in DOMAIN sets \ {setNumber} |-> sets[k]]

\* this.sets after markAsMonitored(setNumber), now being the value of new Date()
markAsMonitored(sets, setNumber, now) ==
  IF setNumber \in DOMAIN sets
  THEN [sets EXCEPT ![setNumber] =
          Spread(sets[setNumber],
                 [monitoring      |-> TRUE,
                  monitoringSince |-> IF "monitoringSince" \in DOMAIN sets[setNumber]
                                      THEN sets[setNumber].monitoringSince
                                      ELSE now])]
  ELSE sets

\* the most calls made on a registry
MaxCalls == 4

\* the set numbers found on the page
FoundSetNumbers == {SetA, SetB}

\* the setInfo getRetiringSoon.js passes: { name, url }
SetInfo(setNumber) ==
  [name |-> Str(<<"N">> \o setNumber.s), url |-> Str(<<"/">> \o setNumber.s)]

\* new SetRegistry(registryPath) with no registry file
RegistryInit ==
  /\ NoRegistry
  /\ fetcher = NotFetching
  /\ dirs = <<>>
  /\ snapshots = <<>>
  /\ reports = [n \in 0..MaxSnapshots |-> NotRun]
  /\ call = NoCall

CallAddSet ==
  /\ Len(callLog) < MaxCalls
  /\ \E setNumber \in FoundSetNumbers, first \in Dates :
       \E last \in IF setNumber \in DOMAIN registry THEN {first} ELSE {first, first + 1} :
         /\ registry' = addSet(registry, setNumber, SetInfo(setNumber), first, last)
         /\ clock' = last
         /\ callLog' = Append(callLog, [fn |-> "addSet", setNumber |-> setNumber,
                                        dates |-> {first, last}])
  /\ UNCHANGED <<dirs, snapshots, reports, call, fetcher>>

CallRemoveSet ==
  /\ Len(callLog) < MaxCalls
  /\ \E setNumber \in FoundSetNumbers :
       /\ registry' = removeSet(registry, setNumber)
       /\ callLog' = Append(callLog, [fn |-> "removeSet", setNumber |-> setNumber,
                                      dates |-> {}])
  /\ UNCHANGED <<dirs, snapshots, reports, call, fetcher, clock>>

CallMarkAsMonitored ==
  /\ Len(callLog) < MaxCalls
  /\ \E setNumber \in FoundSetNumbers, now \in Dates :
       /\ registry' = markAsMonitored(registry, setNumber, now)
       /\ clock' = IF setNumber \in DOMAIN registry
                      /\ "monitoringSince" \notin DOMAIN registry[setNumber]
                   THEN now ELSE clock
       /\ callLog' = Append(callLog, [fn |-> "markAsMonitored", setNumber |-> setNumber,
                                      dates |-> {}])
  /\ UNCHANGED <<dirs, snapshots, reports, call, fetcher>>

RegistryNext == CallAddSet \/ CallRemoveSet \/ CallMarkAsMonitored

RegistrySpec == RegistryInit /\ [][RegistryNext]_vars

----------------------------------------------------------------------------
(* The detectors and trackSetPrices called on the same loaded snapshots    *)

\* the lists of sets of an older and of a newer file: set A at 95 or 120,
\* retired or not in the newer one, and set B
QueriedLists ==
  LET prevAs == {SetRecord(SetA, EmptyString, Usd100, p, Pop10, Usd120) :
                   p \in {Usd95, Usd120}}
      curAs  == {SetRecord(SetA, r, Usd100, p, Pop10, Usd120) :
                   r \in {EmptyString, Retired2024}, p \in {Usd95, Usd120}}
  IN  PreviousLists(prevAs, PreviousRecordsB) \X SetLists(curAs, CurrentRecordsB)

\* two files are loaded: the program has called getAllSnapshots
QueryInit ==
  /\ \E lists \in QueriedLists :
       dirs = <<[timestamp |-> 1, file |-> JsonFile(AnalysisData(Date1, lists[1]))],
                [timestamp |-> 2, file |-> JsonFile(AnalysisData(Date3, lists[2]))]>>
  /\ snapshots \in getAllSnapshots(dirs)
  /\ fetcher = NotFetching
  /\ NoRegistry
  /\ reports = [n \in 0..MaxSnapshots |-> NotRun]
  /\ call = NoCall

QueryNext == Next \/ CallTrackSetPrices

QuerySpec == QueryInit /\ [][QueryNext]_vars

----------------------------------------------------------------------------
(* The detectors on pairs that may list a setNumber more than once         *)

\* the lists of at most two of the given records, a record or a setNumber
\* possibly twice
ListsOf(records) ==
  {<<>>} \cup {<<r>> : r \in records} \cup {<<r, q>> : r \in records, q \in records}

\* set A at 110 or 95 and set B in the previous snapshot; set A at 95 or 120,
\* retired or not, and set B in the current one
RepeatedInit ==
  /\ \E prev \in ListsOf({SetRecord(SetA, EmptyString, Usd100, p, Pop10, Usd120) :
                             p \in {Usd95, Usd110}} \cup PreviousRecordsB) :
       \E cur \in ListsOf({SetRecord(SetA, r, Usd100, p, Pop10, Usd120) :
                              r \in {EmptyString, Retired2024}, p \in {Usd95, Usd120}}
                           \cup CurrentRecordsB) :
         snapshots = <<Snapshot(1, prev), Snapshot(2, cur)>>
  /\ reports = [n \in 0..MaxSnapshots |-> NotRun]
  /\ call = NoCall
  /\ dirs = <<>>
  /\ fetcher = NotFetching
  /\ NoRegistry

RepeatedSpec == RepeatedInit /\ [][Next]_vars

----------------------------------------------------------------------------
(* Vocabulary of the properties                                            *)

\* the alerts of a list that have the given type and setNumber
HasAlert(alerts, type, setNumber) ==
  \E i \in 1..Len(alerts) : alerts[i].type = type /\ alerts[i].setNumber = setNumber

SetNumbersOf(data) == {Get(data.sets[i], "setNumber") : i \in 1..Len(data.sets)}

\* the record of a set in a snapshot that lists it once
RecordOf(data, setNumber) ==
  data.sets[CHOOSE i \in 1..Len(data.sets) : Get(data.sets[i], "setNumber") = setNumber]

\* the set numbers listed in both snapshots of a pair
InBoth(previous, current) == SetNumbersOf(previous) \cap SetNumbersOf(current)

\* an empty retired marker: absent or the empty string
MarkerEmpty(rec) == Get(rec, "retired") \in {Undefined, Null, EmptyString}

ReferencePrice(rec) == parsePrice(Get(rec, "retailPrice"))

CurrentPrice(rec) == parsePrice(Get(rec, "marketPrice"))

PredictedPop(rec) == parsePercent(Get(rec, "retirementPop"))

OneYearTarget(rec) == parsePrice(Get(rec, "oneYearRetiredValue"))

\* ROI of a price from a reference price, defined when the reference is > 0
ROI(price, reference) == Rat((price[1] * reference[2] - reference[1] * price[2]) * 100 * reference[2],
                             price[2] * reference[2] * reference[1])

\* the alerts of every category of a report of main
ReportHasAlert(report, type, setNumber) ==
  \E category \in DOMAIN report.allAlerts :
    HasAlert(report.allAlerts[category], type, setNumber)

\* the two snapshots the run recorded in reports[n] compared
Older(n) == snapshots[n - 1].data

Newer(n) == snapshots[n].data

Runs == {n \in 2..Len(snapshots) : Compared(reports[n])}

----------------------------------------------------------------------------
(* POP_ACHIEVED along a series                                             *)

\* the ROI from MSRP of a record is at or above its predicted pop
RoiAtLeastPop(rec) ==
  /\ RLt(Zero, ReferencePrice(rec))
  /\ RGeq(ROI(CurrentPrice(rec), ReferencePrice(rec)), PredictedPop(rec))

(* C1: along a series compared pair by pair, POP_ACHIEVED is not emitted   *)
(* at the comparison (n, n+1) for an item whose ROI from MSRP was already  *)
(* at or above its predicted pop in snapshot n.                            *)
C1_PopAchievedOnlyAtCrossing ==
  \A n \in Runs :
    \A sn \in InBoth(Older(n), Newer(n)) :
      RoiAtLeastPop(RecordOf(Older(n), sn))
        => ~ReportHasAlert(reports[n], "POP_ACHIEVED", sn)

\* POP_ACHIEVED for the same set at (1, 2) and again at (2, 3)
PopAchievedTwice ==
  /\ 3 \in Runs /\ 2 \in Runs
  /\ ReportHasAlert(reports[2], "POP_ACHIEVED", SetA)
  /\ ReportHasAlert(reports[3], "POP_ACHIEVED", SetA)

----------------------------------------------------------------------------
(* BUYING_OPPORTUNITY along a series                                       *)

\* the market price of a record is below the MSRP of the same record
BelowOwnMsrp(rec) == RLt(CurrentPrice(rec), ReferencePrice(rec))

(* C2 as stated: BUYING_OPPORTUNITY is not emitted at (n, n+1) for an item *)
(* whose market price in snapshot n was already below the MSRP that        *)
(* snapshot n records for it.                                              *)
C2_NoAlertWhenAlreadyBelowOwnMsrp ==
  \A n \in Runs :
    \A sn \in InBoth(Older(n), Newer(n)) :
      BelowOwnMsrp(RecordOf(Older(n), sn))
        => ~ReportHasAlert(reports[n], "BUYING_OPPORTUNITY", sn)

(* C2, amended: BUYING_OPPORTUNITY is not emitted at (n, n+1) for an item  *)
(* whose market price in snapshot n was already below the MSRP of its      *)
(* record in snapshot n+1; so while the price stays below an unchanged     *)
(* MSRP the alert is emitted only at the first of these snapshots.         *)
C2_NoAlertWhenAlreadyBelowMsrp ==
  \A n \in Runs :
    \A sn \in InBoth(Older(n), Newer(n)) :
      RLt(CurrentPrice(RecordOf(Older(n), sn)), ReferencePrice(RecordOf(Newer(n), sn)))
        => ~ReportHasAlert(reports[n], "BUYING_OPPORTUNITY", sn)

\* C2: the price dropped below the MSRP at (1, 2), stayed below at (2, 3), and
\* the alert came at (1, 2) only
C2_AlertedOnce ==
  /\ 2 \in Runs /\ 3 \in Runs
  /\ SetA \in InBoth(Older(3), Newer(3))
  /\ ReportHasAlert(reports[2], "BUYING_OPPORTUNITY", SetA)
  /\ BelowOwnMsrp(RecordOf(Newer(3), SetA))
  /\ MarkerEmpty(RecordOf(Newer(3), SetA))
  /\ ~ReportHasAlert(reports[3], "BUYING_OPPORTUNITY", SetA)

----------------------------------------------------------------------------
----------------------------------------------------------------------------
(* C4: no detector returns an alert for an item whose setNumber is in only *)
(* one of the two snapshots.                                               *)
C4_NoAlertForUnmatched ==
  call.fn # "none" =>
    \A i \in 1..Len(call.alerts) : call.alerts[i].setNumber \in InBoth(Previous, Current)

\* C4: a call that returned alerts although the current snapshot lists a set
\* the previous one lacks
C4_UnmatchedSkipped ==
  /\ call.fn # "none" /\ call.alerts # <<>>
  /\ SetNumbersOf(Current) \ SetNumbersOf(Previous) # {}
  /\ Get(Current.sets[1], "setNumber") \notin SetNumbersOf(Previous)
  /\ ~MarkerEmpty(Current.sets[1])

----------------------------------------------------------------------------
(* The retirement transition                                               *)

\* the retired marker of a set is empty in previous and not in current
JustRetired(previous, current, sn) ==
  MarkerEmpty(RecordOf(previous, sn)) /\ ~MarkerEmpty(RecordOf(current, sn))

AlertedSets(alerts) == [i \in 1..Len(alerts) |-> alerts[i].setNumber]

(* C5: for an item in both snapshots checkNewlyRetiredSets returns         *)
(* NEWLY_RETIRED, and detectRetirementEvents returns RETIREMENT, exactly   *)
(* when the previous retired marker is empty and the current one is not;   *)
(* the two detectors fire for the same items.                              *)
C5_RetiredTransition ==
  /\ call.fn = "checkNewlyRetiredSets" =>
       \A sn \in InBoth(Previous, Current) :
         HasAlert(call.alerts, "NEWLY_RETIRED", sn) <=> JustRetired(Previous, Current, sn)
  /\ call.fn = "detectRetirementEvents" =>
       \A sn \in InBoth(Previous, Current) :
         HasAlert(call.alerts, "RETIREMENT", sn) <=> JustRetired(Previous, Current, sn)
  /\ call.fn \in {"checkNewlyRetiredSets", "detectRetirementEvents"} =>
       AlertedSets(checkNewlyRetiredSets(Previous, Current))
         = AlertedSets(detectRetirementEvents(Previous, Current))

\* C5: RETIREMENT for a set whose previous record has no retired field
C5_RetirementReported ==
  /\ call.fn = "detectRetirementEvents"
  /\ HasAlert(call.alerts, "RETIREMENT", SetA)
  /\ Get(RecordOf(Previous, SetA), "retired") = Undefined

----------------------------------------------------------------------------
(* C6: the output of a comparison run of main holds both a NEWLY_RETIRED   *)
(* and a RETIREMENT alert for an item whose retired marker went from empty *)
(* to non-empty.                                                           *)
C6_RunReportsBothRetirementAlerts ==
  \A n \in Runs :
    \A sn \in InBoth(Older(n), Newer(n)) :
      JustRetired(Older(n), Newer(n), sn) =>
        /\ ReportHasAlert(reports[n], "NEWLY_RETIRED", sn)
        /\ ReportHasAlert(reports[n], "RETIREMENT", sn)

----------------------------------------------------------------------------
(* TARGET_REACHED                                                          *)

\* the price of a set went from below the current one-year target to it or above
CrossedOneYearTarget(previous, current, sn) ==
  LET target == OneYearTarget(RecordOf(current, sn))
  IN  /\ RLt(Zero, target)
      /\ RGeq(CurrentPrice(RecordOf(current, sn)), target)
      /\ RLt(CurrentPrice(RecordOf(previous, sn)), target)

(* C7 as stated: for an item in both snapshots TARGET_REACHED is returned  *)
(* exactly when the current one-year target is > 0, the current price is   *)
(* >= that target and the previous price is < it, with no other condition. *)
C7_TargetReachedIffCrossed ==
  call.fn = "checkRetirementPopAchievement" =>
    \A sn \in InBoth(Previous, Current) :
      HasAlert(call.alerts, "TARGET_REACHED", sn)
        <=> CrossedOneYearTarget(Previous, Current, sn)

(* C7, amended: for an item in both snapshots TARGET_REACHED is returned   *)
(* exactly when the item is retired in the current snapshot, its parsed    *)
(* retail price is not 0, the current one-year target is > 0, the current  *)
(* price is >= that target and the previous price is < it.                 *)
C7_TargetReachedIffRetiredAndCrossed ==
  call.fn = "checkRetirementPopAchievement" =>
    \A sn \in InBoth(Previous, Current) :
      HasAlert(call.alerts, "TARGET_REACHED", sn)
        <=> /\ ~MarkerEmpty(RecordOf(Current, sn))
            /\ ReferencePrice(RecordOf(Current, sn)) # Zero
            /\ CrossedOneYearTarget(Previous, Current, sn)

\* C7: TARGET_REACHED was returned for set A
C7_TargetReached ==
  /\ call.fn = "checkRetirementPopAchievement"
  /\ HasAlert(call.alerts, "TARGET_REACHED", SetA)

----------------------------------------------------------------------------
(* C8: for an item in both snapshots POP_ACHIEVED is returned exactly when *)
(* the item is retired in the current snapshot, its reference price is     *)
(* > 0, its current ROI from MSRP is >= its current predicted pop and its  *)
(* previous price is below its current price.                              *)
C8_PopAchievedIff ==
  call.fn = "checkRetirementPopAchievement" =>
    \A sn \in InBoth(Previous, Current) :
      LET cur == RecordOf(Current, sn)
      IN  HasAlert(call.alerts, "POP_ACHIEVED", sn)
            <=> /\ ~MarkerEmpty(cur)
                /\ RLt(Zero, ReferencePrice(cur))
                /\ RGeq(ROI(CurrentPrice(cur), ReferencePrice(cur)), PredictedPop(cur))
                /\ RLt(CurrentPrice(RecordOf(Previous, sn)), CurrentPrice(cur))

----------------------------------------------------------------------------
(* BUYING_OPPORTUNITY                                                      *)

\* a snapshot with one set, not retired, of reference price 100.00
ExampleData(price) ==
  [analysisDate |-> 1,
   sets |-> <<SetRecord(SetA, EmptyString, Str(<<"$", "1", "0", "0", ".", "0", "0">>),
                        price, Pop10, Usd120)>>]

Example110To95 ==
  checkBuyingOpportunities(ExampleData(Str(<<"$", "1", "1", "0">>)),
                           ExampleData(Str(<<"$", "9", "5">>)))

Example90To80 ==
  checkBuyingOpportunities(ExampleData(Str(<<"$", "9", "0">>)),
                           ExampleData(Str(<<"$", "8", "0">>)))

----------------------------------------------------------------------------
(* ROI_TARGET                                                              *)

\* the target of the recorded call: the one passed, or 20
TargetOfCall == IF call.arg = Undefined THEN Num(20) ELSE call.arg.n

\* the ROI of a record: its market price against its own reference price
RecordROI(rec) == ROI(CurrentPrice(rec), ReferencePrice(rec))

(* C10 as stated: for an item in both snapshots with reference price > 0,  *)
(* checkROITargets returns ROI_TARGET exactly when the current record's    *)
(* ROI is >= the target and the previous record's ROI is < the target; the *)
(* target is 20 when none is passed.                                       *)
C10_RoiTargetIffRecordsCross ==
  call.fn = "checkROITargets" =>
    \A sn \in InBoth(Previous, Current) :
      LET cur  == RecordOf(Current, sn)
          prev == RecordOf(Previous, sn)
      IN  (RLt(Zero, ReferencePrice(cur)) /\ RLt(Zero, ReferencePrice(prev))) =>
            (HasAlert(call.alerts, "ROI_TARGET", sn)
               <=> /\ RGeq(RecordROI(cur), TargetOfCall)
                   /\ RLt(RecordROI(prev), TargetOfCall))

(* C10, amended: for an item in both snapshots whose current record has a  *)
(* reference price > 0, checkROITargets returns ROI_TARGET exactly when    *)
(* the current record's ROI is >= the target and the ROI of the previous   *)
(* record's price, taken against the current record's reference price, is  *)
(* < the target, whether or not the item is retired; the target is 20      *)
(* when none is passed.                                                    *)
C10_RoiTargetIffPricesCross ==
  call.fn = "checkROITargets" =>
    \A sn \in InBoth(Previous, Current) :
      LET cur  == RecordOf(Current, sn)
          prev == RecordOf(Previous, sn)
      IN  RLt(Zero, ReferencePrice(cur)) =>
            (HasAlert(call.alerts, "ROI_TARGET", sn)
               <=> /\ RGeq(RecordROI(cur), TargetOfCall)
                   /\ RLt(ROI(CurrentPrice(prev), ReferencePrice(cur)), TargetOfCall))

\* C10: the default target was crossed by a set that is not retired
C10_DefaultTargetCrossed ==
  /\ call.fn = "checkROITargets" /\ call.arg = Undefined
  /\ HasAlert(call.alerts, "ROI_TARGET", SetA)
  /\ MarkerEmpty(RecordOf(Current, SetA))
  /\ call.alerts[1].details.targetROI = Fmt("", NumText(Num(20)), "%")

----------------------------------------------------------------------------
(* Missing reference price                                                 *)

ThresholdRules == {"POP_ACHIEVED", "TARGET_REACHED", "BUYING_OPPORTUNITY", "ROI_TARGET"}

(* C11: for an item in both snapshots whose parsed retail price is <= 0    *)
(* (an absent or empty retail price parses to 0), no detector returns a    *)
(* POP_ACHIEVED, TARGET_REACHED, BUYING_OPPORTUNITY or ROI_TARGET alert.   *)
C11_NoThresholdAlertWithoutReference ==
  call.fn # "none" =>
    \A sn \in InBoth(Previous, Current) :
      ~RLt(Zero, ReferencePrice(RecordOf(Current, sn))) =>
        \A type \in ThresholdRules : ~HasAlert(call.alerts, type, sn)

\* the percent-from-MSRP details an alert of each type carries
PercentDetails(type) ==
  CASE type = "RETIREMENT"         -> {"currentROI"}
    [] type = "NEWLY_RETIRED"      -> {"priceChange"}
    [] type = "POP_ACHIEVED"       -> {"actualChange", "exceededBy"}
    [] type = "TARGET_REACHED"     -> {"roi"}
    [] type = "BUYING_OPPORTUNITY" -> {"discount"}
    [] type = "ROI_TARGET"         -> {"currentROI"}

(* C12: every percent-from-MSRP detail of a returned alert (ROI, price     *)
(* change, discount) was computed from a reference price > 0: it is "N/A"  *)
(* unless the parsed retail price of the alert's set is > 0; in            *)
(* particular it is never the result of a division by 0.                   *)
C12_PercentOnlyFromPositiveReference ==
  call.fn # "none" =>
    \A i \in 1..Len(call.alerts) :
      \A d \in PercentDetails(call.alerts[i].type) :
        \/ call.alerts[i].details[d].n.k = "N/A"
        \/ /\ RLt(Zero, ReferencePrice(RecordOf(Current, call.alerts[i].setNumber)))
           /\ call.alerts[i].details[d].n.k = "num"

----------------------------------------------------------------------------
(* Fewer than two snapshots                                                *)

\* whether the monitor has run on the snapshots it loaded
Ran == reports[Len(snapshots)] # NotRun

\* whether the tracker's report was asked for n snapshots
ReportedOn(n) == call.fn = "generateReport" /\ Len(call.arg) = n

----------------------------------------------------------------------------
(* Absent and malformed snapshots                                          *)

\* a file that holds a snapshot: JSON with an analysisDate that is a date and
\* with an array of sets
WellFormed(file) ==
  /\ file.kind = "json"
  /\ "analysisDate" \in DOMAIN file.value
  /\ ~IsNaN(NewDate(file.value.analysisDate))
  /\ SetsIsArray(file.value)

\* the directory entries that hold a snapshot
WellFormedEntries == {i \in 1..Len(dirs) : WellFormed(dirs[i].file)}

LoadedTimestamps == {snapshots[i].timestamp : i \in 1..Len(snapshots)}

\* C14: an absent or malformed persisted snapshot (missing file, invalid
\* JSON, missing or unparseable analysisDate, missing or non-array sets) is
\* treated as no snapshot: getAllSnapshots never returns it, the other
\* snapshots are still loaded, and the comparison of the run never raises.
C14_MalformedIsNoSnapshot ==
  Ran =>
    /\ LoadedTimestamps = {dirs[i].timestamp : i \in WellFormedEntries}
    /\ reports[Len(snapshots)].status # "TypeError"

----------------------------------------------------------------------------
(* The order of the snapshots                                              *)

\* the analysis dates of the loaded snapshots other than the one at place n
OtherDates(n) == {snapshots[i].date : i \in 1..Len(snapshots) \ {n}}

\* C15: getAllSnapshots returns the snapshots by analysis date, oldest
\* first, whatever the order of the directory listing; the run of the monitor
\* compares the last two of them, the older as previous and the newer as
\* current: no other snapshot is newer than previous, none is newer than
\* current.
C15_OldestFirstLastTwoCompared ==
  Ran =>
    /\ \A i, j \in 1..Len(snapshots) :
         i < j => ~RLt(snapshots[j].date, snapshots[i].date)
    /\ Len(snapshots) >= 2 =>
         LET n        == Len(snapshots)
             previous == NewDate(reports[n].comparing[1])
             current  == NewDate(reports[n].comparing[2])
         IN  /\ reports[n].comparing = <<snapshots[n - 1].data.analysisDate,
                                         snapshots[n].data.analysisDate>>
             /\ ~RLt(current, previous)
             /\ \A d \in OtherDates(n) : ~RLt(current, d)
             /\ \A d \in OtherDates(n) \ {snapshots[n - 1].date} : ~RLt(previous, d)

----------------------------------------------------------------------------
(* The history of a set                                                    *)

Tracked == call.fn = "trackSetPrices"

\* the loaded snapshots that list the set, in their order
Containing(setNumber) ==
  SelectSeq(snapshots, LAMBDA snapshot : setNumber \in SetNumbersOf(snapshot.data))

HasSummary(history) == "summary" \in DOMAIN history

\* the minutes from the first to the last data point
MinutesTracked(history) ==
  history.dataPoints[Len(history.dataPoints)].date[1] - history.dataPoints[1].date[1]

\* a history from 2024-01-01 at price 20 to 2024-01-11 at price 25
Day0To10Price20To25(history) ==
  LET first == history.dataPoints[1]
      last  == history.dataPoints[Len(history.dataPoints)]
  IN  /\ first.date = NewDate(Date1) /\ first.marketPrice = Num(20)
      /\ last.date = NewDate(Date3) /\ last.marketPrice = Num(25)

FirstAppearance(setNumber) ==
  LET first == Containing(setNumber)[1].data
  IN  first.sets[FindIndex(first.sets, setNumber)]

\* C17: the name, theme and msrp of the history are those of the first
\* appearance of the set in the ordered snapshots; later snapshots that
\* contain the set never change them.
C17_BasicInfoOfFirstAppearance ==
  (Tracked /\ Len(call.result.dataPoints) > 0) =>
    LET first == FirstAppearance(call.arg)
    IN  /\ call.result.name = Get(first, "name")
        /\ call.result.theme = Get(first, "theme")
        /\ call.result.msrp = NumberValue(parsePrice(Get(first, "retailPrice")))

----------------------------------------------------------------------------
(* The change of the price                                                 *)

FirstPrice(history) == history.dataPoints[1].marketPrice

LastPrice(history) == history.dataPoints[Len(history.dataPoints)].marketPrice

\* amount is last price minus first price and percent is that amount divided
\* by the first price, times 100
ChangeFromFirstToLast(history) ==
  LET amount == RSub(LastPrice(history), FirstPrice(history))
  IN  /\ history.summary.priceChange.amount = amount
      /\ history.summary.priceChange.percent
           = RMul(RDiv(amount, FirstPrice(history)), Num(100))

NoChange(history) ==
  /\ history.summary.priceChange.amount = Zero
  /\ history.summary.priceChange.percent = Zero

\* C18 as claimed: for a history with two or more data points, amount is
\* the last price minus the first price and percent is that amount divided by
\* the first price times 100, for every first and last price, a last price of
\* 0 included.
C18_ChangeForEveryPrice ==
  (Tracked /\ HasSummary(call.result)) => ChangeFromFirstToLast(call.result)

\* C18 as the code has it: that holds when the first and the last price are
\* both other than 0; when either is 0, amount and percent are both 0.
C18_ChangeUnlessAPriceIsZero ==
  (Tracked /\ HasSummary(call.result)) =>
    IF FirstPrice(call.result) = Zero \/ LastPrice(call.result) = Zero
    THEN NoChange(call.result)
    ELSE ChangeFromFirstToLast(call.result)

\* a set tracked from price 20 to a last price of 0
C18_LastPriceZero ==
  /\ Tracked /\ HasSummary(call.result)
  /\ FirstPrice(call.result) = Num(20) /\ LastPrice(call.result) = Zero

----------------------------------------------------------------------------
(* The retirement status of a history                                      *)

\* C19: summary.retirementStatus.hasRetired is true if and only if the
\* retired marker of the last data point is non-empty: a set whose marker is
\* empty or absent in its last data point is reported as not retired, as the
\* alert detectors decide it for the same record.
C19_HasRetiredIffMarkerNonEmpty ==
  (Tracked /\ HasSummary(call.result)) =>
    LET history == call.result
        last    == Containing(call.arg)[Len(history.dataPoints)].data
        rec     == last.sets[FindIndex(last.sets, call.arg)]
    IN  /\ history.summary.retirementStatus.hasRetired <=> ~MarkerEmpty(rec)
        /\ history.summary.retirementStatus.hasRetired <=> isNowRetired(rec)

----------------------------------------------------------------------------
(* The parsers                                                             *)

Parsed == call.fn \in {"parsePrice", "parsePercent"}

\* the string of the call without the characters the parser strips
Stripped ==
  LET removed == IF call.fn = "parsePrice" THEN {"$", ","} ELSE {"+", "%"}
  IN  SelectSeq(call.arg.s, LAMBDA c : c \notin removed)

\* a decimal numeral: an optional '-', digits, and optionally '.' and digits
WellFormedNumber(chars) ==
  LET body == IF chars # <<>> /\ Head(chars) = "-" THEN Tail(chars) ELSE chars
  IN  /\ body # <<>>
      /\ \A i \in 1..Len(body) : body[i] \in Digits \cup {"."}
      /\ Cardinality({i \in 1..Len(body) : body[i] = "."}) <= 1
      /\ body[1] \in Digits /\ body[Len(body)] \in Digits

\* the number a decimal numeral denotes
DecimalValue(chars) ==
  LET digits   == SelectSeq(chars, LAMBDA c : c \in Digits)
      dots     == {i \in 1..Len(chars) : chars[i] = "."}
      decimals == IF dots = {} THEN 0 ELSE Len(chars) - (CHOOSE i \in dots : TRUE)
      sign     == IF Head(chars) = "-" THEN -1 ELSE 1
  IN  Rat(sign * DigitsValue(digits, 0), Pow10(decimals))

\* a string that does not start with a number: after an optional sign comes
\* neither a digit, nor '.' and a digit, nor Infinity
Unparseable(chars) ==
  LET body == IF chars # <<>> /\ Head(chars) \in {"+", "-"} THEN Tail(chars) ELSE chars
  IN  /\ chars = <<>> \/ Head(chars) # " "
      /\ body = <<>> \/ Head(body) \notin Digits
      /\ ~(Len(body) >= 2 /\ body[1] = "." /\ body[2] \in Digits)
      /\ ~StartsWith(body, <<"I", "n", "f", "i", "n", "i", "t", "y">>)

\* C20: parsePrice and parsePercent return 0 for absent (undefined, null),
\* empty and unparseable input and never raise, for every value a field of a
\* snapshot record can have; for a well-formed string they return its number
\* after stripping '$' and ',' (price) or '+' and '%' (percent), a leading
\* '-' kept.
C20_ParsersTotal ==
  Parsed =>
    /\ call.result # TypeError
    /\ call.arg \in {Undefined, Null, EmptyString} => call.result = Zero
    /\ (call.arg.t = "string" /\ Unparseable(Stripped)) => call.result = Zero
    /\ (call.arg.t = "string" /\ WellFormedNumber(Stripped)) =>
         call.result = DecimalValue(Stripped)

----------------------------------------------------------------------------
(* Items with missing or malformed fields                                  *)

\* the detector of a call on a pair
Detected(fn, arg, previous, current) ==
  CASE fn = "detectRetirementEvents" -> detectRetirementEvents(previous, current)
    [] fn = "checkRetirementPopAchievement" ->
         checkRetirementPopAchievement(previous, current)
    [] fn = "checkBuyingOpportunities" -> checkBuyingOpportunities(previous, current)
    [] fn = "checkNewlyRetiredSets" -> checkNewlyRetiredSets(previous, current)
    [] fn = "checkROITargets" -> checkROITargets(previous, current, arg)

\* a snapshot without the records of a set
Without(data, setNumber) ==
  [data EXCEPT !.sets = SelectSeq(data.sets,
                          LAMBDA rec : Get(rec, "setNumber") # setNumber)]

\* the alerts of a list that are about a set
AlertsAbout(alerts, setNumber) ==
  SelectSeq(alerts, LAMBDA alert : alert.setNumber = setNumber)

\* C21: an item with a missing or malformed field (an absent, empty,
\* non-string or unparseable price, percent or marker) never keeps a detector
\* from evaluating the other items: the alerts a detector returns about the
\* other item are those it returns for the pair without the malformed item.
C21_OtherItemsEvaluated ==
  call.fn # "none" =>
    AlertsAbout(call.alerts, SetB)
      = Detected(call.fn, call.arg, Without(Previous, SetA), Without(Current, SetA))

----------------------------------------------------------------------------
(* The fetch loop                                                          *)

\* the positions in the log of the requests
Requests == {k \in 1..Len(fetcher.log) : fetcher.log[k].event = "request"}

\* the loop indices of the requests, in the order they were made
Requested ==
  LET requests == SelectSeq(fetcher.log, LAMBDA entry : entry.event = "request")
  IN  [k \in 1..Len(requests) |-> requests[k].i]

\* C22: the 1-second delay is waited between every two consecutive page
\* requests of the fetch loop, whether the earlier of the two succeeded or
\* failed.
C22_DelayBetweenRequests ==
  fetcher.pc # "none" =>
    \A a, b \in Requests :
      a < b => \E k \in a..b : fetcher.log[k].event = "delay"

\* C23: an error while fetching or saving the page of one set does not stop
\* the run: the run ends with every set of the list requested exactly once,
\* in the order of the list, and the browser closed after the loop (a run
\* with no set exits before it launches a browser).
C23_EverySetAttemptedThenClosed ==
  <>[](\/ fetcher.pc = "exit" /\ fetcher.sets = <<>>
       \/ /\ fetcher.pc = "done"
          /\ Requested = [k \in 1..Len(fetcher.sets) |-> k - 1]
          /\ fetcher.browser = "closed"
          /\ fetcher.log[Len(fetcher.log)].i = Len(fetcher.sets) - 1)

\* a run that ended after the fetch of its first set and the save of its
\* second set failed
C23_EndedAfterErrors ==
  /\ fetcher.pc = "done"
  /\ Len(fetcher.sets) = MaxSets
  /\ \E a, b \in 1..Len(fetcher.log) :
       /\ fetcher.log[a] = [event |-> "error", i |-> 0]
       /\ fetcher.log[b] = [event |-> "error", i |-> 1]
       /\ \E k \in 1..Len(fetcher.log) : fetcher.log[k] = [event |-> "saved", i |-> 2]

----------------------------------------------------------------------------
(* The registry of sets                                                    *)

\* the positions in the log of the addSet calls for a set number
Adds(setNumber) ==
  {k \in 1..Len(callLog) : callLog[k].fn = "addSet" /\ callLog[k].setNumber = setNumber}

\* the position of the last removeSet call for a set number, 0 when there is none
LastRemoval(setNumber) ==
  LET removals == {k \in 1..Len(callLog) :
                     callLog[k].fn = "removeSet" /\ callLog[k].setNumber = setNumber}
  IN  IF removals = {} THEN 0 ELSE CHOOSE k \in removals : \A j \in removals : j <= k

\* the addSet calls for a set number since its last removal
AddsSinceCreation(setNumber) == {k \in Adds(setNumber) : k > LastRemoval(setNumber)}

Earliest(positions) == CHOOSE k \in positions : \A j \in positions : k <= j

Latest(positions) == CHOOSE k \in positions : \A j \in positions : j <= k

\* C24: after any sequence of addSet, removeSet and markAsMonitored calls on
\* a registry that started empty, the registry holds the set numbers added
\* and not removed since and count() is their number; every set in it has
\* timesFound equal to the number of addSet calls for it since the call that
\* created it, firstSeen a time read by the creating call and lastSeen the
\* time read by its latest addSet.
C24_RegistryTracksAddSetCalls ==
  LET present == {n \in FoundSetNumbers : AddsSinceCreation(n) # {}}
  IN  /\ DOMAIN registry = present
      /\ count(registry) = Cardinality(present)
      /\ \A n \in present :
           /\ registry[n].timesFound = Cardinality(AddsSinceCreation(n))
           /\ registry[n].firstSeen \in callLog[Earliest(AddsSinceCreation(n))].dates
           /\ registry[n].lastSeen \in callLog[Latest(AddsSinceCreation(n))].dates
           /\ registry[n].firstSeen <= registry[n].lastSeen

\* a set that was removed, created again, marked and found once more, at three
\* different times
C24_FoundTwiceAfterRemoval ==
  /\ Len(callLog) = MaxCalls
  /\ callLog[1].fn = "addSet" /\ callLog[1].setNumber = SetA
  /\ callLog[2].fn = "removeSet" /\ callLog[2].setNumber = SetA
  /\ callLog[3].fn = "addSet" /\ callLog[3].setNumber = SetA
  /\ callLog[4].fn = "addSet" /\ callLog[4].setNumber = SetA
  /\ registry[SetA].timesFound = 2
  /\ registry[SetA].firstSeen < registry[SetA].lastSeen

----------------------------------------------------------------------------
(* Calls without side effects                                              *)

----------------------------------------------------------------------------
(* A retirement along a series                                             *)

\* whether snapshot n lists the set
Lists(n, setNumber) == setNumber \in SetNumbersOf(snapshots[n].data)

\* C26: when the monitor has compared every adjacent pair of a series, an
\* item that is not retired in snapshot i and retired in a later snapshot j
\* has a NEWLY_RETIRED alert in the report of some comparison (k, k+1) with
\* i <= k < j, also when the snapshots between i and j do not list it.
C26_RetirementReportedAlongSeries ==
  (\A n \in 2..Len(snapshots) : Compared(reports[n])) =>
    \A i, j \in 1..Len(snapshots) :
      (/\ i < j
       /\ Lists(i, SetA) /\ MarkerEmpty(RecordOf(snapshots[i].data, SetA))
       /\ Lists(j, SetA) /\ ~MarkerEmpty(RecordOf(snapshots[j].data, SetA)))
      => \E k \in i..(j - 1) : ReportHasAlert(reports[k + 1], "NEWLY_RETIRED", SetA)

\* C26, amended: when the monitor has compared every adjacent pair of a
\* series, an item that is not retired in snapshot i, retired in a later
\* snapshot j and listed in every snapshot from i to j has a NEWLY_RETIRED
\* alert in the report of some comparison (k, k+1) with i <= k < j.
C26_RetirementReportedWhenListedThroughout ==
  (\A n \in 2..Len(snapshots) : Compared(reports[n])) =>
    \A i, j \in 1..Len(snapshots) :
      (/\ i < j
       /\ \A n \in i..j : Lists(n, SetA)
       /\ MarkerEmpty(RecordOf(snapshots[i].data, SetA))
       /\ ~MarkerEmpty(RecordOf(snapshots[j].data, SetA)))
      => \E k \in i..(j - 1) : ReportHasAlert(reports[k + 1], "NEWLY_RETIRED", SetA)

\* a set listed in three snapshots that retires in the third; every pair was
\* compared and the second comparison reported it
C26_RetiredInThirdSnapshot ==
  /\ Len(snapshots) = 3
  /\ \A n \in 2..3 : Compared(reports[n])
  /\ \A n \in 1..3 : Lists(n, SetA)
  /\ MarkerEmpty(RecordOf(snapshots[1].data, SetA))
  /\ MarkerEmpty(RecordOf(snapshots[2].data, SetA))
  /\ ~MarkerEmpty(RecordOf(snapshots[3].data, SetA))
  /\ ~ReportHasAlert(reports[2], "NEWLY_RETIRED", SetA)
  /\ ReportHasAlert(reports[3], "NEWLY_RETIRED", SetA)

----------------------------------------------------------------------------
(* The reference values of the threshold rules                             *)

\* a snapshot with the retail price, the predicted pop and the one-year target
\* of every record replaced
WithReferences(data, values) ==
  [data EXCEPT !.sets =
     [i \in 1..Len(data.sets) |->
        [data.sets[i] EXCEPT !.retailPrice = values[1],
                             !.retirementPop = values[2],
                             !.oneYearRetiredValue = values[3]]]]

\* other reference values: absent, other amounts, and numbers in place of text
OtherReferences ==
  {<<Undefined, Undefined, Undefined>>,
   <<Usd130, PopMinus250, Usd95>>,
   <<NumberValue(Num(50)), NumberValue(Num(5)), NumberValue(Num(60))>>}

\* the detectors of the threshold rules
ThresholdDetectors ==
  {"checkRetirementPopAchievement", "checkBuyingOpportunities", "checkROITargets"}

\* C27: every threshold rule takes the reference price, the predicted pop
\* and the one-year target from the current record only: the alerts that
\* checkRetirementPopAchievement, checkBuyingOpportunities and checkROITargets
\* return are the same whatever the retailPrice, retirementPop and
\* oneYearRetiredValue of the previous records are.
C27_PreviousReferencesIgnored ==
  call.fn \in ThresholdDetectors =>
    \A values \in OtherReferences :
      call.alerts = Detected(call.fn, call.arg, WithReferences(Previous, values), Current)

\* ROI_TARGET was returned for a set whose previous record has another retail
\* price than its current record
C27_AlertWithOtherPreviousMsrp ==
  /\ call.fn = "checkROITargets"
  /\ HasAlert(call.alerts, "ROI_TARGET", SetA)
  /\ SetA \in SetNumbersOf(Previous)
  /\ ReferencePrice(RecordOf(Previous, SetA)) # ReferencePrice(RecordOf(Current, SetA))

----------------------------------------------------------------------------
(* Alerts that exclude each other                                          *)

\* the alert types of the rules for retired items, with their detectors
RetiredRules ==
  {<<"NEWLY_RETIRED", "checkNewlyRetiredSets">>,
   <<"RETIREMENT", "detectRetirementEvents">>,
   <<"POP_ACHIEVED", "checkRetirementPopAchievement">>,
   <<"TARGET_REACHED", "checkRetirementPopAchievement">>}

\* C28: in the comparison of a pair, BUYING_OPPORTUNITY is never returned for
\* an item for which NEWLY_RETIRED, RETIREMENT, POP_ACHIEVED or
\* TARGET_REACHED is returned, and, when the item's reference price is > 0
\* and the ROI target is >= 0, never for an item for which ROI_TARGET is
\* returned.
C28_BuyingOpportunityExcludesOthers ==
  call.fn = "checkBuyingOpportunities" =>
    \A sn \in {SetA, SetB} :
      HasAlert(call.alerts, "BUYING_OPPORTUNITY", sn) =>
        /\ \A rule \in RetiredRules :
             ~HasAlert(Detected(rule[2], Undefined, Previous, Current), rule[1], sn)
        /\ \A targetArg \in TargetArgs :
             (/\ RLt(Zero, ReferencePrice(RecordOf(Current, sn)))
              /\ RGeq(TargetROIParam(targetArg), Zero))
             => ~HasAlert(checkROITargets(Previous, Current, targetArg), "ROI_TARGET", sn)

\* a comparison with a buying opportunity for set A in which set B retires and
\* reaches the ROI target
C28_OpportunityBesideRetirement ==
  /\ call.fn = "checkBuyingOpportunities"
  /\ HasAlert(call.alerts, "BUYING_OPPORTUNITY", SetA)
  /\ HasAlert(checkNewlyRetiredSets(Previous, Current), "NEWLY_RETIRED", SetB)
  /\ HasAlert(checkRetirementPopAchievement(Previous, Current), "POP_ACHIEVED", SetB)
  /\ HasAlert(checkROITargets(Previous, Current, Undefined), "ROI_TARGET", SetB)

----------------------------------------------------------------------------
(* One alert of a kind for a set                                           *)

\* no two alerts of the list have the same type and the same setNumber
OneAlertOfAKind(alerts) ==
  \A i, j \in 1..Len(alerts) :
    (alerts[i].type = alerts[j].type /\ alerts[i].setNumber = alerts[j].setNumber)
      => i = j

\* the alerts follow the order of the items: they can be assigned to items of
\* their setNumber without ever going back in the list
InOrderOf(alerts, sets) ==
  \E item \in [1..Len(alerts) -> 1..Len(sets)] :
    /\ \A i \in 1..Len(alerts) : Get(sets[item[i]], "setNumber") = alerts[i].setNumber
    /\ \A i, j \in 1..Len(alerts) : i < j => item[i] <= item[j]

\* whether a snapshot lists no setNumber twice
ListsEachOnce(data) == Cardinality(SetNumbersOf(data)) = Len(data.sets)

\* C29: in one comparison each detector returns at most one alert of a given
\* kind per setNumber, in the order of the items of the current snapshot, for
\* every pair of snapshots, also one that lists the same setNumber more than
\* once.
C29_OneAlertPerKindAndSet ==
  call.fn # "none" =>
    /\ OneAlertOfAKind(call.alerts)
    /\ call.alerts = <<>> \/ InOrderOf(call.alerts, Current.sets)

\* C29, amended: in one comparison each detector returns at most one alert
\* of a given kind per setNumber when the current snapshot lists no setNumber
\* twice (the previous one may), and always in the order of the items of the
\* current snapshot.
C29_OneAlertPerKindAndListedSet ==
  call.fn # "none" =>
    /\ ListsEachOnce(Current) => OneAlertOfAKind(call.alerts)
    /\ call.alerts = <<>> \/ InOrderOf(call.alerts, Current.sets)

\* RETIREMENT for set B and then for set A, as the current snapshot lists them
C29_TwoSetsRetireInListOrder ==
  /\ call.fn = "detectRetirementEvents"
  /\ AlertedSets(call.alerts) = <<SetB, SetA>>
  /\ ListsEachOnce(Current)
  /\ Get(Current.sets[1], "setNumber") = SetB

----------------------------------------------------------------------------
(* The current price of the detectors and of the history                   *)

\* the snapshots that list a set, oldest first
SnapshotsListing(setNumber) ==
  SelectSeq(snapshots, LAMBDA snapshot : setNumber \in SetNumbersOf(snapshot.data))

\* C30: for the same item record of the same snapshot, the market price of
\* the data point trackSetPrices builds equals the current price the
\* detectors use for that record: both read the same field of the record.
C30_HistoryPriceIsDetectorPrice ==
  call.fn = "trackSetPrices" =>
    LET listing == SnapshotsListing(call.arg)
    IN  /\ Len(call.result.dataPoints) = Len(listing)
        /\ \A k \in 1..Len(listing) :
             call.result.dataPoints[k].marketPrice
               = CurrentPrice(RecordOf(listing[k].data, call.arg))

====
